---- MODULE Spec2Model ----
(***************************************************************************)
(* unifi-protect-viewer: the renderer-side automation of src/js/preload.js *)
(* (condition waiter, authentication driver, layout drivers, session       *)
(* watchdog, run orchestrator).                                            *)
(*                                                                         *)
(* Time is in milliseconds.  The event loop is modelled with ideal timers: *)
(* a timer fires exactly at its deadline, timers with the same deadline    *)
(* fire in the order they were registered, and time moves only from one    *)
(* timer deadline to the next.  wElapsed is the time since the current     *)
(* waitUntil call.  The host page (the environment) may change the DOM,    *)
(* the route and the test predicate between any two timer callbacks.       *)
(***************************************************************************)
EXTENDS Integers, Sequences, FiniteSets, TLC

VARIABLES
  pc,          \* position of the running async function (its pending await)
  wState,      \* waitUntil promise: "idle", "polling", "settling"
  wCond,       \* which predicate the pending waitUntil polls
  wTimeout,    \* its timeout argument
  wInterval,   \* its interval argument
  wElapsed,    \* ms since the waitUntil call (time of the last timer callback)
  wPolls,      \* interval callbacks run so far
  wResult,     \* the value complete() was called with
  wLastPoll,   \* what the latest predicate evaluation did: "none","true","false","throw"
  wEndedBy,    \* which callback called complete(): "none", "poll", "timeout"
  pred,        \* the test predicate's current behaviour: "true", "false", "throw"
  predMode,    \* how the test predicate evolves: "never","monotone","flicker","throws"
  predTrueAt,  \* elapsed time at which the test predicate first became true, -1 if never
  tResult,     \* value the awaited promise resolved with (test harness)
  tResolvedAt, \* ms after the call at which the promise resolved, -1 while pending
  hEl,         \* the argument of a mutation helper: <<>> for null, else <<element>>
  hBefore,     \* that argument before the call
  hOp,         \* the helper call made: [name, value, prop]
  hOut,        \* what the call did: [threw, errors, dispatched]
  shell,       \* the Electron shell (main.js): its window, the key last pressed, IPC sent
  docs,        \* documents loaded into the window so far (each fires one load event)
  store,       \* electron-store key 'config': "none" or [url, username, password]
  config,      \* run()'s local `config` ("unset" before configLoad resolves)
  url,         \* document.URL, a sequence of URL pieces
  dom,         \* the page's elements: [loader, buttons, versionEls, modal, root, widgets, late]
  pageLabels,  \* innerText of the VERSION_TEXT elements this page renders once loaded
  expiresIn,   \* <<>> if localStorage has no portal:localSessionsExpiresAt, else <<its value
               \* minus the time at which run() reads it>>
  style,       \* inline style properties written so far: <<element, property, value>>
  drv,         \* the layout driver being executed: [gen, pass], gen "none" when none
  version,     \* run()'s local `version` ("unset" before detection)
  runs,        \* page loads so far
  storeOps,    \* reset / configSave requests handled by the shell so far
  log          \* what the current run has done (observation only)

wVars == <<wState, wCond, wTimeout, wInterval, wElapsed, wPolls, wResult, wLastPoll, wEndedBy>>
hVars == <<hEl, hBefore, hOp, hOut>>
testVars == <<pred, predMode, predTrueAt, tResult, tResolvedAt, hVars>>
tVars == <<testVars, shell, docs>>
pageVars == <<url, dom, pageLabels, expiresIn>>
runVars == <<config, style, drv, version, runs, log>>
vars == <<pc, wVars, tVars, store, storeOps, pageVars, runVars>>

\* ------------------------------------------------------------------ constants
DEFAULT_WAIT == 60000
LOADING_TIMEOUT == 10000
UI_ADJUSTMENT == 4000
INTERVAL == 100
MIN_DELAY == 20
\* run(): `const offset = 10 * 60 * 1000` and the watchdog's poll interval
WatchdogOffset_None == 0 * 60 * 1000
WatchdogOffset == 600000
WatchdogInterval == 60000
\* handleLiveviewV4andV5: the poll interval of its option-button waits
SlowInterval == 500

\* ------------------------------------------------------------------ bounds
\* Polls of one wait that the model follows one by one.  A wait with a timeout
\* that has polled MaxPolls times goes straight to its timeout callback (the
\* page does not change during the polls skipped); a wait without timeout
\* stays pending.
MaxPolls == 2
\* Page loads (the first one, then reloads and navigations) the model follows.
MaxRuns == 2
\* reset / configSave requests the shell handles while the page is open.
MaxStoreOps == 1

\* ------------------------------------------------------------------ helpers
Max(a, b) == IF a >= b THEN a ELSE b

\* String.prototype.includes on sequences of characters.
Includes(s, sub) ==
  \E i \in 0..(Len(s) - Len(sub)) : SubSeq(s, i + 1, i + Len(sub)) = sub

\* ------------------------------------------------------------------ the host page
Host == <<"https://h">>
LoginUrl == Host \o <<"/", "login">>
DashUrl == Host \o <<"/", "protect/dashboard", "/", "X">>
LiveUrl == Host \o <<"/", "protect/liveview", "/", "X">>
DevicesUrl == Host \o <<"/", "protect/devices">>
ConfigPage == <<"file://", "/", "config.html">>

\* checkUrl(urlPart): document.URL.includes(urlPart)
checkUrl(urlPart) == Includes(url, urlPart)

\* Number.prototype.toString for a non-negative integer, as characters.
Digit(d) ==
  CASE d = 0 -> "0" [] d = 1 -> "1" [] d = 2 -> "2" [] d = 3 -> "3" [] d = 4 -> "4"
    [] d = 5 -> "5" [] d = 6 -> "6" [] d = 7 -> "7" [] d = 8 -> "8" [] d = 9 -> "9"

RECURSIVE Digits(_)
Digits(n) == IF n < 10 THEN <<Digit(n)>> ELSE Digits(n \div 10) \o <<Digit(n % 10)>>

\* The text "Protect M.m.p" of a version element ("Protect" kept as one piece).
Label(v) == <<"Protect", " ">> \o Digits(v[1]) \o <<".">> \o Digits(v[2]) \o <<".">> \o Digits(v[3])

\* A version element of another application on the same console.
OtherLabel == <<"Network", " ", "9", ".", "0">>

\* Releases the model's pages show.
Versions == {<<3, 40, 2>>, <<4, 1, 0>>, <<5, 0, 0>>, <<4, 3, 0>>, <<6, 0, 0>>}

PageLabelSets ==
  {<<>>, <<OtherLabel>>} \cup {<<OtherLabel, Label(v)>> : v \in Versions}

ExpiresInSet == {<<>>, <<300000>>, <<660000>>}

\* The pages of the second Gen-4/5 release are modelled without the
\* session-expiry marker: the watchdog of a Gen-4/5 page is explored with the
\* first release, whose runs are the same up to the label.
SecondGen45Page == <<OtherLabel, Label(<<5, 0, 0>>)>>

NoConfig == [present |-> FALSE, url |-> <<>>, username |-> "", password |-> ""]
Cfg(u, name, pw) == [present |-> TRUE, url |-> u, username |-> name, password |-> pw]

\* What configSave may store while a page is open.
SavedConfigs == {Cfg(Host, "u", ""), Cfg(Host, "", "p")}

DomEmpty ==
  [loader |-> "pending", buttons |-> FALSE, versionEls |-> <<>>, modal |-> "pending",
   root |-> FALSE, widgets |-> FALSE, late |-> FALSE, portals |-> <<>>]

NoDrv == [gen |-> "none", pass |-> 0, caller |-> "run"]

LogInit ==
  [outcome |-> "running", loginCalls |-> 0, loginResult |-> "none", filled |-> FALSE,
   clicked |-> FALSE, buttonInTime |-> FALSE, leftLoginInTime |-> FALSE, loginCfgOk |-> FALSE,
   versionWait |-> FALSE, detected |-> FALSE, found |-> FALSE, dashboard |-> FALSE,
   drivers |-> <<>>, results |-> <<>>, modalClicks |-> 0, drvWaits |-> 0,
   drvCloseCalls |-> 0, closeResult |-> "none",
   caught |-> {}, threw |-> {}, rejected |-> FALSE, armed |-> FALSE,
   reloaded |-> FALSE, navigated |-> FALSE,
   configLoads |-> 0, loginConfig |-> NoConfig,
   entry |-> "first", opsAtStart |-> 0, passedLogin |-> FALSE, loginRoute |-> FALSE,
   atDispatch |-> FALSE, routeAtDispatch |-> <<>>,
   secondAfter |-> -1, styleAfterFirst |-> {},
   steps |-> {}, gated |-> FALSE, absent |-> FALSE, aborted |-> FALSE,
   atWatchdog |-> FALSE, wdBy |-> "none", wdPoll |-> "none", wdAt |-> -1, wdMatched |-> FALSE]

\* The shell as the page automation sees it: a window showing a page, no key
\* pressed; the store holds no key besides 'config' (extraKeys).
ShellIdle ==
  [window |-> "page", key |-> "none", confirm |-> "none", response |-> -1,
   sent |-> <<>>, inbox |-> <<>>, storeAtPress |-> NoConfig,
   storeAtLaunch |-> NoConfig, loadURL |-> FALSE, cleared |-> "none",
   launches |-> 1, inputs |-> 0, extraKeys |-> {}]

\* No mutation helper is being looked at.
NoOp == [name |-> "none", value |-> "", prop |-> ""]
NoOut == [threw |-> FALSE, errors |-> 0, dispatched |-> 0]
NoHelper == hEl = <<>> /\ hBefore = <<>> /\ hOp = NoOp /\ hOut = NoOut

\* ------------------------------------------------------------------ waitUntil
\* `if (timeout !== -1)`: the timeout timer is registered for every other value.
HasTimeout_NoSentinel(t) == TRUE
HasTimeout(t) == t # -1

\* setTimeout treats a negative delay as 0.
TimerDelay(ms) == Max(ms, 0)

\* Deadline of the timeout timer, in ms after the call.
TimeoutAt == TimerDelay(wTimeout)

\* Deadline of the next interval callback: setInterval runs its callback first
\* one full interval after the call (NextPollAt_Immediate: a first evaluation at
\* the moment of the call).
NextPollAt_Immediate == wPolls * wInterval
NextPollAt == (wPolls + 1) * wInterval

\* The value the timeout callback passes to complete().
TimeoutResult_True == TRUE
TimeoutResult == FALSE

\* What the interval callback does when condition() throws: the catch block
\* logs and keeps the interval running ("keep"); "fail" would complete(false).
OnThrow_Fail == "fail"
OnThrow == "keep"

\* run(): `new Date().getTime() > (loginExpiresAt - offset)`, at `now` ms after
\* the watchdog was armed.
PastTrigger_AtOrAfter(now) == now >= expiresIn[1] - WatchdogOffset
PastTrigger(now) == now > expiresIn[1] - WatchdogOffset

\* closeAllModals' predicate on the list of .ReactModalPortal elements:
\* every(e => e.children.length === 0).  dom.modal is the summary the run uses
\* (one portal, "open" when it has children), dom.portals the list itself.
AllEmpty_Some(portals) == \E i \in 1..Len(portals) : portals[i].children = 0
AllEmpty(portals) == \A i \in 1..Len(portals) : portals[i].children = 0

\* Value of the predicate being polled, as condition() would return it now.
Truth(b) == IF b THEN "true" ELSE "false"

\* Value of the predicate being polled, as condition() would return it at time
\* `now` after the waitUntil call.  The DOM predicates are hasElements(
\* document.querySelectorAll(...)) tests, which do not throw.
CondValue(c, now) ==
  CASE c = "Test" -> pred
    [] c = "LoaderVisible" -> Truth(dom.loader = "visible")
    [] c = "LoaderGone" -> Truth(dom.loader # "visible")
    [] c = "LoginButton" -> Truth(dom.buttons)
    [] c = "NotLogin" -> Truth(~checkUrl(<<"login">>))
    [] c = "VersionVisible" -> Truth(Len(dom.versionEls) > 0)
    [] c = "Root" -> Truth(dom.root)
    [] c = "ModalsClosed" -> Truth(dom.modal # "open" /\ AllEmpty(dom.portals))
    [] c = "Widgets" -> Truth(dom.widgets)
    [] c = "Late" -> Truth(dom.late)
    [] c = "Watchdog" ->
         Truth(~checkUrl(config.url) \/ PastTrigger(now))

\* new Promise(...) body of waitUntil: register the timers
\* (StartWait_NoTimeout: the timeout argument is ignored).
StartWait_NoTimeout(c, timeout, interval) ==
  /\ wState' = "polling"
  /\ wCond' = c
  /\ wTimeout' = -1
  /\ wInterval' = interval
  /\ wElapsed' = 0
  /\ wPolls' = 0
  /\ wResult' = FALSE
  /\ wLastPoll' = "none"
  /\ wEndedBy' = "none"
StartWait(c, timeout, interval) ==
  /\ wState' = "polling"
  /\ wCond' = c
  /\ wTimeout' = timeout
  /\ wInterval' = interval
  /\ wElapsed' = 0
  /\ wPolls' = 0
  /\ wResult' = FALSE
  /\ wLastPoll' = "none"
  /\ wEndedBy' = "none"

\* The setTimeout callback: complete(false).  It was registered before the
\* interval, so on equal deadlines it runs first and clears the interval.
TimeoutFire ==
  /\ wState = "polling"
  /\ HasTimeout(wTimeout)
  /\ (TimeoutAt <= NextPollAt \/ wPolls >= MaxPolls)
  /\ wState' = "settling"
  /\ wResult' = TimeoutResult
  /\ wEndedBy' = "timeout"
  /\ wElapsed' = TimeoutAt
  /\ UNCHANGED <<pc, wCond, wTimeout, wInterval, wPolls, wLastPoll, tVars, store, storeOps, pageVars, runVars>>

\* The setInterval callback: evaluate the predicate inside try/catch.
\* (IntervalFire_NotCleared: complete() leaves the interval timer running.)
IntervalFire_NotCleared ==
  /\ wState \in {"polling", "settling"}
  /\ wPolls < MaxPolls
  /\ (wState = "polling" /\ HasTimeout(wTimeout) => NextPollAt < TimeoutAt)
  /\ LET v == CondValue(wCond, NextPollAt) IN
       /\ wLastPoll' = v
       /\ wPolls' = wPolls + 1
       /\ wElapsed' = NextPollAt
       /\ IF v = "true"
            THEN wState' = "settling" /\ wResult' = TRUE /\ wEndedBy' = "poll"
            ELSE UNCHANGED <<wState, wResult, wEndedBy>>
  /\ UNCHANGED <<pc, wCond, wTimeout, wInterval, tVars, store, storeOps, pageVars, runVars>>
IntervalFire ==
  /\ wState = "polling"
  /\ wPolls < MaxPolls
  /\ (HasTimeout(wTimeout) => NextPollAt < TimeoutAt)
  /\ LET v == CondValue(wCond, NextPollAt) IN
       /\ wLastPoll' = v
       /\ wPolls' = wPolls + 1
       /\ wElapsed' = NextPollAt
       /\ IF v = "true"
            THEN wState' = "settling" /\ wResult' = TRUE /\ wEndedBy' = "poll"
            ELSE IF v = "throw" /\ OnThrow = "fail"
              THEN wState' = "settling" /\ wResult' = FALSE /\ wEndedBy' = "poll"
              ELSE UNCHANGED <<wState, wResult, wEndedBy>>
  /\ UNCHANGED <<pc, wCond, wTimeout, wInterval, tVars, store, storeOps, pageVars, runVars>>

\* ------------------------------------------------------------------ a single call of waitUntil
TestTimeouts == {-1, -250, 0, 50, 100, 250, 300}
TestIntervals == {100, 250}

InitWait ==
  /\ pc = "test_idle"
  /\ wState = "idle"
  /\ wCond = "Test"
  /\ wTimeout \in TestTimeouts
  /\ wInterval \in TestIntervals
  /\ wElapsed = 0
  /\ wPolls = 0
  /\ wResult = FALSE
  /\ wLastPoll = "none"
  /\ wEndedBy = "none"
  /\ predMode \in {"never", "monotone", "flicker", "throws"}
  /\ pred \in (CASE predMode = "never" -> {"false"}
                 [] predMode = "throws" -> {"throw"}
                 [] OTHER -> {"false", "true"})
  /\ predTrueAt = (IF pred = "true" THEN 0 ELSE -1)
  /\ tResult = FALSE
  /\ tResolvedAt = -1
  /\ NoHelper
  /\ store = NoConfig
  /\ storeOps = 0
  /\ shell = ShellIdle
  /\ docs = 1
  /\ url = ConfigPage
  /\ dom = DomEmpty
  /\ pageLabels = <<>>
  /\ expiresIn = <<>>
  /\ config = NoConfig
  /\ style = {}
  /\ drv = NoDrv
  /\ version = <<>>
  /\ runs = 0
  /\ log = LogInit

\* const r = await waitUntil(condition, timeout, interval)
TestCall ==
  /\ pc = "test_idle"
  /\ pc' = "test_wait"
  /\ StartWait("Test", wTimeout, wInterval)
  /\ UNCHANGED <<tVars, store, storeOps, pageVars, runVars>>

\* The settle timer of complete(): setTimeout(() => resolve(result), MIN_DELAY).
TestResolved ==
  /\ pc = "test_wait"
  /\ wState = "settling"
  /\ pc' = "test_done"
  /\ wState' = "idle"
  /\ tResult' = wResult
  /\ tResolvedAt' = wElapsed + MIN_DELAY
  /\ UNCHANGED <<wCond, wTimeout, wInterval, wElapsed, wPolls, wResult, wLastPoll, wEndedBy,
                 pred, predMode, predTrueAt, hVars, shell, docs, store, storeOps, pageVars, runVars>>

\* The page makes the predicate true (some instant after the last callback).
PredRise ==
  /\ pc = "test_wait"
  /\ predMode \in {"monotone", "flicker"}
  /\ pred = "false"
  /\ pred' = "true"
  /\ predTrueAt' = (IF predTrueAt = -1 THEN wElapsed ELSE predTrueAt)
  /\ UNCHANGED <<pc, wVars, predMode, tResult, tResolvedAt, hVars, shell, docs, store, storeOps,
                 pageVars, runVars>>

\* The page makes the predicate false again.
PredFall ==
  /\ pc = "test_wait"
  /\ predMode = "flicker"
  /\ pred = "true"
  /\ pred' = "false"
  /\ UNCHANGED <<pc, wVars, predMode, predTrueAt, tResult, tResolvedAt, hVars, shell, docs, store,
                 storeOps, pageVars, runVars>>

NextWait ==
  \/ TestCall
  \/ IntervalFire
  \/ TimeoutFire
  \/ TestResolved
  \/ PredRise
  \/ PredFall

SpecWait == InitWait /\ [][NextWait]_vars

\* Number of interval deadlines strictly before the timeout deadline.
PollsBeforeTimeout ==
  IF TimeoutAt = 0 THEN 0 ELSE (TimeoutAt - 1) \div wInterval

\* ------------------------------------------------------------------ DOM helpers
\* setStyle(element, style, value) on a non-null element: element.style[style] = value
SetStyle_Toggle(st, el, prop, val) ==
  IF <<el, prop, val>> \in st THEN st \ {<<el, prop, val>>}
  ELSE {t \in st : ~(t[1] = el /\ t[2] = prop)} \cup {<<el, prop, val>>}
SetStyle(st, el, prop, val) ==
  {t \in st : ~(t[1] = el /\ t[2] = prop)} \cup {<<el, prop, val>>}

\* A sequence of setStyle calls <<element, property, value, element exists>>; a
\* call on a null element logs and changes nothing.
RECURSIVE ApplyStyles(_, _)
ApplyStyles(st, writes) ==
  IF writes = <<>> THEN st
  ELSE LET w == Head(writes) IN
       ApplyStyles(IF w[4] THEN SetStyle(st, w[1], w[2], w[3]) ELSE st, Tail(writes))

\* getProtectVersion(): innerHTML of the first version element whose text
\* includes 'Protect'; null (here <<>>) when there is none.
getProtectVersion ==
  LET els == dom.versionEls
      idx == {i \in 1..Len(els) : Includes(els[i], <<"Protect">>)}
  IN IF idx = {} THEN <<>>
     ELSE els[CHOOSE i \in idx : \A j \in idx : i <= j]

\* run(): `getProtectVersion() || 'Protect 3.x'`
DefaultVersion_None == <<>>
DefaultVersion == <<"Protect", " ", "3", ".", "x">>

DetectedVersion ==
  IF getProtectVersion = <<>> THEN DefaultVersion ELSE getProtectVersion

\* run(): the if / else if / else on version.includes('3.'), ('4.'), ('5.')
Generation_FallbackV3(v) ==
  IF Includes(v, <<"4", ".">>) \/ Includes(v, <<"5", ".">>) THEN "V4V5" ELSE "V3"
Generation_FourFiveFirst(v) ==
  IF Includes(v, <<"4", ".">>) \/ Includes(v, <<"5", ".">>) THEN "V4V5"
  ELSE IF Includes(v, <<"3", ".">>) THEN "V3"
  ELSE "unsupported"
Generation(v) ==
  IF Includes(v, <<"3", ".">>) THEN "V3"
  ELSE IF Includes(v, <<"4", ".">>) \/ Includes(v, <<"5", ".">>) THEN "V4V5"
  ELSE "unsupported"

\* run(): `else { Logger.error('Login failed'); return }`
StopOnLoginFailure_No == FALSE
StopOnLoginFailure == TRUE

\* ------------------------------------------------------------------ steps of run()
\* No waitUntil is pending.
StopWait ==
  /\ wState' = "idle"
  /\ wCond' = "none"
  /\ wTimeout' = 0
  /\ wInterval' = 0
  /\ wElapsed' = 0
  /\ wPolls' = 0
  /\ wResult' = FALSE
  /\ wLastPoll' = "none"
  /\ wEndedBy' = "none"

\* A pending waitUntil has resolved: its settle timer ran at position p.
Resolved(p) == pc = p /\ wState = "settling"

\* run() returns.
Finish(l, outcome) ==
  /\ pc' = "done"
  /\ StopWait
  /\ log' = [l EXCEPT !.outcome = outcome]
  /\ drv' = NoDrv

\* The functions whose whole body is inside try { ... } catch { ... }: run()
\* logs and returns, handleLogin() and the layout drivers return false.
TryCatch_RunOnly(fn) == fn = "run"
TryCatch(fn) ==
  fn \in {"run", "handleLogin", "handleLiveviewV2", "handleLiveviewV3", "handleLiveviewV4andV5"}

\* The function of the driver of generation g.
DriverName(g) ==
  CASE g = "V2" -> "handleLiveviewV2"
    [] g = "V3" -> "handleLiveviewV3"
    [] g = "V4V5" -> "handleLiveviewV4andV5"

\* electronAPI.configLoad() is ipcRenderer.invoke('configLoad'): its promise
\* may reject.
ConfigLoadRejects == BOOLEAN

\* An exception (or rejected await) inside the body of run(): its catch block
\* logs it and run() returns; uncaught, the promise of run() rejects.
RunThrows(l) ==
  IF TryCatch("run")
    THEN Finish([l EXCEPT !.caught = @ \cup {"run"}], "error")
    ELSE Finish([l EXCEPT !.rejected = TRUE], "rejected")

\* An exception inside fn, called by run(): fn's catch block makes it return
\* (`caught`); uncaught, it is thrown into the body of run().
Throws(fn, l, caught) ==
  IF TryCatch(fn)
    THEN caught
    ELSE RunThrows([l EXCEPT !.threw = @ \cup {fn}])

\* `await waitUntil(...)` at position p.
Await(p, c, timeout, interval, l, d) ==
  /\ pc' = p
  /\ StartWait(c, timeout, interval)
  /\ log' = (IF d.gen # "none" THEN [l EXCEPT !.drvWaits = @ + 1] ELSE l)
  /\ drv' = d

\* A layout driver is called and reaches its first await (the root container).
BeginDriverBy(caller, g, pass, l) ==
  Await("drv_root", "Root", DEFAULT_WAIT, INTERVAL,
        [l EXCEPT !.drivers = Append(@, g), !.steps = {}, !.gated = TRUE,
                  !.absent = FALSE, !.aborted = FALSE, !.drvWaits = 0,
                  !.drvCloseCalls = 0],
        [gen |-> g, pass |-> pass, caller |-> caller])

BeginDriver(g, pass, l) == BeginDriverBy("run", g, pass, l)

\* run(): the session watchdog block.
WatchdogStep_AlwaysArm(l) ==
  Await("run_watchdog", "Watchdog", -1, WatchdogInterval,
        [l EXCEPT !.atWatchdog = TRUE, !.armed = TRUE], NoDrv)
WatchdogStep(l) ==
  IF expiresIn # <<>>
    THEN Await("run_watchdog", "Watchdog", -1, WatchdogInterval,
               [l EXCEPT !.atWatchdog = TRUE, !.armed = TRUE], NoDrv)
    ELSE Finish([l EXCEPT !.atWatchdog = TRUE], "done")

\* run(): the Protect 2.x test, else the wait for the version label.
DispatchStep_DetectFirst(l) ==
  Await("run_version", "VersionVisible", LOADING_TIMEOUT, INTERVAL,
        [l EXCEPT !.atDispatch = TRUE, !.routeAtDispatch = url, !.versionWait = TRUE], NoDrv)
DispatchStep(l) ==
  LET l1 == [l EXCEPT !.atDispatch = TRUE, !.routeAtDispatch = url] IN
  IF checkUrl(<<"protect/liveview">>)
    THEN BeginDriver("V2", 1, l1)
    ELSE Await("run_version", "VersionVisible", LOADING_TIMEOUT, INTERVAL,
               [l1 EXCEPT !.versionWait = TRUE], NoDrv)

\* handleLogin() has returned res to run().
LoginReturned(res, l) ==
  IF res
    THEN Await("run_redirect", "NotLogin", DEFAULT_WAIT, INTERVAL,
               [l EXCEPT !.loginResult = "true"], NoDrv)
    ELSE IF StopOnLoginFailure
      THEN Finish([l EXCEPT !.loginResult = "false"], "loginFailed")
      ELSE DispatchStep([l EXCEPT !.loginResult = "false"])

\* run(): `if (checkUrl('login'))`: handleLogin() up to its first await.
LoginStep(l) ==
  LET l1 == [l EXCEPT !.passedLogin = TRUE, !.loginRoute = checkUrl(<<"login">>)] IN
  IF checkUrl(<<"login">>)
    THEN Await("login_button", "LoginButton", DEFAULT_WAIT, INTERVAL,
               [l1 EXCEPT !.loginCalls = @ + 1], NoDrv)
    ELSE DispatchStep(l1)

\* A layout driver has returned res to run(), which ignores it.
\* run(): what follows the first call of a dashboard driver.
\* `await wait(UI_ADJUSTMENT)` and the second call (AfterFirstPass_Once: no second call).
AfterFirstPass_Once(l) == WatchdogStep(l)
AfterFirstPass(l) == pc' = "run_adjust" /\ StopWait /\ log' = l /\ drv' = drv

\* (DriverReturned_V2Watchdog: the Gen-2 branch falls through to the watchdog
\* block instead of returning.)
DriverReturned_V2Watchdog(res, l) ==
  LET l2 == [l EXCEPT !.results = Append(@, res), !.drvWaits = 0, !.drvCloseCalls = 0] IN
  IF drv.caller = "twice"
    THEN /\ pc' = (IF drv.pass = 1 THEN "twice_between" ELSE "twice_done")
         /\ StopWait
         /\ log' = l2
         /\ drv' = drv
  ELSE IF drv.gen = "V2" THEN WatchdogStep(l2)
  ELSE IF drv.pass = 1 THEN AfterFirstPass(l2)
  ELSE WatchdogStep(l2)
\* (DriverReturned_StopOnFailure: run() returns when a driver returned false.)
DriverReturned_StopOnFailure(res, l) ==
  LET l2 == [l EXCEPT !.results = Append(@, res), !.drvWaits = 0, !.drvCloseCalls = 0] IN
  IF drv.caller = "twice"
    THEN /\ pc' = (IF drv.pass = 1 THEN "twice_between" ELSE "twice_done")
         /\ StopWait
         /\ log' = l2
         /\ drv' = drv
  ELSE IF ~res THEN Finish(l2, "driverFailed")
  ELSE IF drv.gen = "V2" THEN Finish(l2, "v2done")
  ELSE IF drv.pass = 1 THEN AfterFirstPass(l2)
  ELSE WatchdogStep(l2)
DriverReturned(res, l) ==
  LET l2 == [l EXCEPT !.results = Append(@, res), !.drvWaits = 0, !.drvCloseCalls = 0] IN
  IF drv.caller = "twice"
    THEN /\ pc' = (IF drv.pass = 1 THEN "twice_between" ELSE "twice_done")
         /\ StopWait
         /\ log' = l2
         /\ drv' = drv
  ELSE IF drv.gen = "V2" THEN Finish(l2, "v2done")
  ELSE IF drv.pass = 1 THEN AfterFirstPass(l2)
  ELSE WatchdogStep(l2)

\* run(): `window.location.href = config.url` is followed by `return`.
StopAfterNavigate_No == FALSE
StopAfterNavigate == TRUE

\* addEventListener('load', ..., {once: true}): the listener runs for the
\* load event of a document whose run has not started (LoadPending_Again: also
\* for a later load event of the same document).
LoadPending_Again == pc \in {"load", "done"}
\* (LoadPending_NotAfterReload: a listener that skips the load event of a
\* document the watchdog reloaded.)
LoadPending_NotAfterReload == pc = "load" /\ log.outcome # "reloaded"
LoadPending == pc = "load"

\* The load listener: run() up to its first await.
RunStart ==
  /\ LoadPending
  /\ runs < MaxRuns
  /\ runs' = runs + 1
  /\ config' = store
  /\ version' = <<>>
  /\ \E rejects \in ConfigLoadRejects :
     LET l == [LogInit EXCEPT !.buttonInTime = dom.buttons,
                              !.configLoads = 1,
                              !.entry = (IF log.reloaded THEN "reload"
                                         ELSE IF log.navigated THEN "navigate" ELSE "first"),
                              !.opsAtStart = storeOps] IN
     IF rejects
       THEN RunThrows(l) /\ UNCHANGED <<url, dom, style, docs>>
     ELSE IF ~store.present
       THEN Finish(l, "noConfig") /\ UNCHANGED <<url, dom, style, docs>>
     ELSE IF checkUrl(<<"index.html">>) \/ checkUrl(<<"config.html">>)
       THEN Finish(l, "configPage") /\ UNCHANGED <<url, dom, style, docs>>
     ELSE IF ~checkUrl(store.url)
       THEN /\ url' = store.url
            /\ docs' = docs + 1
            /\ dom' = DomEmpty
            /\ style' = {}
            /\ IF StopAfterNavigate
                 THEN /\ pc' = "load"
                      /\ StopWait
                      /\ log' = [l EXCEPT !.navigated = TRUE, !.outcome = "navigated"]
                      /\ drv' = NoDrv
                 ELSE Await("run_loaderVisible", "LoaderVisible", LOADING_TIMEOUT, INTERVAL,
                            [l EXCEPT !.navigated = TRUE], NoDrv)
     ELSE /\ Await("run_loaderVisible", "LoaderVisible", LOADING_TIMEOUT, INTERVAL, l, NoDrv)
          /\ UNCHANGED <<url, dom, style, docs>>
  /\ UNCHANGED <<testVars, shell, store, storeOps, pageLabels, expiresIn>>

\* run(): after the wait for the loading screen to appear.
AfterLoaderVisible ==
  /\ Resolved("run_loaderVisible")
  /\ IF wResult
       THEN Await("run_loaderGone", "LoaderGone", DEFAULT_WAIT, INTERVAL, log, NoDrv)
       ELSE LoginStep(log)
  /\ UNCHANGED <<tVars, store, storeOps, pageVars, config, style, version, runs>>

\* run(): after the wait for the loading screen to disappear (result ignored).
AfterLoaderGone ==
  /\ Resolved("run_loaderGone")
  /\ LoginStep(log)
  /\ UNCHANGED <<tVars, store, storeOps, pageVars, config, style, version, runs>>

\* handleLogin(): `!config || !config.username || !config.password` negated.
CredentialsPresent_Any(c) == c.present
CredentialsPresent(c) == c.present /\ c.username # "" /\ c.password # ""

\* The configuration handleLogin() works with: the result of its own
\* `await electronAPI.configLoad()`, the stored value at that moment.
LoginConfig == store

\* handleLogin(): after the wait for the login button: configLoad, fill, click.
AfterLoginButton ==
  /\ Resolved("login_button")
  /\ IF ~wResult
       THEN LoginReturned(FALSE, log)
     ELSE \E rejects \in ConfigLoadRejects :
          LET c == LoginConfig
              l == [log EXCEPT !.configLoads = @ + 1, !.loginConfig = c]
              r == [log EXCEPT !.configLoads = @ + 1]
          IN IF rejects
               THEN Throws("handleLogin", r,
                           LoginReturned(FALSE, [r EXCEPT !.caught = @ \cup {"handleLogin"}]))
             ELSE IF ~CredentialsPresent(c)
               THEN LoginReturned(FALSE, l)
               ELSE Await("login_redirect", "NotLogin", DEFAULT_WAIT, INTERVAL,
                          [l EXCEPT !.loginCfgOk = TRUE, !.filled = TRUE,
                                    !.clicked = dom.buttons], NoDrv)
  /\ UNCHANGED <<tVars, store, storeOps, pageVars, config, style, version, runs>>

\* handleLogin(): after the wait for the redirect: `return redirected`.
AfterLoginRedirect ==
  /\ Resolved("login_redirect")
  /\ LoginReturned(wResult, log)
  /\ UNCHANGED <<tVars, store, storeOps, pageVars, config, style, version, runs>>

\* run(): after its own wait for the redirect (result ignored).
AfterRunRedirect ==
  /\ Resolved("run_redirect")
  /\ DispatchStep(log)
  /\ UNCHANGED <<tVars, store, storeOps, pageVars, config, style, version, runs>>

\* run(): after the wait for the version label: detect, classify, dispatch.
\* (AfterVersionVisible_AnyRoute: without the test for 'protect/dashboard'.)
AfterVersionVisible_AnyRoute ==
  /\ Resolved("run_version")
  /\ LET v == DetectedVersion
         l == [log EXCEPT !.detected = TRUE, !.found = (getProtectVersion # <<>>),
                          !.dashboard = checkUrl(<<"protect/dashboard">>)]
     IN /\ version' = v
        /\ IF Generation(v) # "unsupported"
             THEN BeginDriver(Generation(v), 1, l)
             ELSE WatchdogStep(l)
  /\ UNCHANGED <<tVars, store, storeOps, pageVars, config, style, runs>>
AfterVersionVisible ==
  /\ Resolved("run_version")
  /\ LET v == DetectedVersion
         l == [log EXCEPT !.detected = TRUE, !.found = (getProtectVersion # <<>>),
                          !.dashboard = checkUrl(<<"protect/dashboard">>)]
     IN /\ version' = v
        /\ IF checkUrl(<<"protect/dashboard">>) /\ Generation(v) # "unsupported"
             THEN BeginDriver(Generation(v), 1, l)
             ELSE WatchdogStep(l)
  /\ UNCHANGED <<tVars, store, storeOps, pageVars, config, style, runs>>

\* run(): `await wait(UI_ADJUSTMENT)` has elapsed: the driver is called again.
AfterAdjust ==
  /\ pc = "run_adjust"
  /\ BeginDriver(drv.gen, 2,
                 [log EXCEPT !.secondAfter = TimerDelay(UI_ADJUSTMENT), !.styleAfterFirst = style])
  /\ UNCHANGED <<tVars, store, storeOps, pageVars, config, style, version, runs>>

\* run(): the watchdog's wait has resolved: location.reload().  The reload
\* discards the document with its styles and the script's state, and the load
\* listener of the new document starts a new run.  (AfterWatchdog_SamePage: a
\* reload that keeps the document.)
AfterWatchdog_SamePage ==
  /\ Resolved("run_watchdog")
  /\ pc' = "load"
  /\ StopWait
  /\ log' = [log EXCEPT !.reloaded = TRUE, !.outcome = "reloaded", !.wdBy = wEndedBy,
                         !.wdPoll = wLastPoll, !.wdAt = wElapsed,
                         !.wdMatched = checkUrl(config.url)]
  /\ drv' = NoDrv
  /\ UNCHANGED <<tVars, store, storeOps, pageVars, style, config, version, runs>>
AfterWatchdog ==
  /\ Resolved("run_watchdog")
  /\ pc' = "load"
  /\ StopWait
  /\ log' = [log EXCEPT !.reloaded = TRUE, !.outcome = "reloaded", !.wdBy = wEndedBy,
                         !.wdPoll = wLastPoll, !.wdAt = wElapsed,
                         !.wdMatched = checkUrl(config.url)]
  /\ drv' = NoDrv
  /\ dom' = DomEmpty
  /\ style' = {}
  /\ docs' = docs + 1
  /\ UNCHANGED <<testVars, shell, store, storeOps, url, pageLabels, expiresIn, config, version, runs>>

\* ------------------------------------------------------------------ layout drivers
\* header and nav belong to the application shell of every page; the other
\* elements exist when the page has rendered their group.
V2Styles ==
  << <<"header", "display", "none", TRUE>>,
     <<"nav", "display", "none", TRUE>>,
     <<"v2.viewportWrapper", "maxWidth", "100vw", dom.root>>,
     <<"v2.viewportWrapper", "maxHeight", "100vh", dom.root>> >>

BaseStyles ==
  << <<"body", "background", "black", TRUE>>,
     <<"header", "display", "none", TRUE>>,
     <<"nav", "display", "none", TRUE>> >>

V3DashStyles ==
  << <<"v3.widgets", "display", "none", dom.widgets>>,
     <<"v3.header", "display", "none", dom.widgets>>,
     <<"v3.expandButton", "display", "none", dom.widgets>>,
     <<"v3.content", "display", "block", dom.root>>,
     <<"v3.content", "padding", "0", dom.root>> >>

V3WrapperStyles ==
  << <<"v3.scrollable", "paddingBottom", "0", dom.root>>,
     <<"v3.viewportWrapper", "maxWidth", "calc(177.778vh - 50px)", dom.root>> >>

V3CameraStyles ==
  << <<"v3.cameraName", "color", "white", dom.late>>,
     <<"v3.cameraName", "cursor", "initial", dom.late>>,
     <<"v3.cameraName", "pointerEvents", "none", dom.late>> >>

V4Styles ==
  BaseStyles \o
  << <<"v4.widgets", "display", "none", dom.widgets>>,
     <<"v4.expandButton", "display", "none", dom.widgets>>,
     <<"v4.content", "display", "block", dom.widgets>>,
     <<"v4.content", "padding", "0", dom.widgets>>,
     <<"v4.fullscreenWrapper", "background-color", "black", dom.root>>,
     <<"v4.widget", "border", "0", dom.root>>,
     <<"v4.scrollable", "paddingBottom", "0", dom.root>>,
     <<"v4.viewportWrapper", "maxWidth", "calc((100vh) * 1.7777777777777777)", dom.root>> >>

V4OptionStyles == << <<"v4.optionButton", "display", "none", dom.late>> >>
V4PlayerStyles == << <<"v4.playerOptions", "display", "none", dom.late>> >>
V4ErrorStyles == << <<"v4.errorWrapper", "background-color", "black", dom.late>> >>

\* The mutation steps of each driver, in the order of the code.
DriverSteps(g) ==
  CASE g = "V2" -> {"v2"}
    [] g = "V3" -> {"base", "dash", "scrollable", "viewport", "cameras"}
    [] g = "V4V5" -> {"base", "dash", "options", "player", "errors"}

\* Some write of the sequence finds its target missing.
AnyAbsent(writes) == \E i \in 1..Len(writes) : ~writes[i][4]

\* The run has reached the steps `names`, which do the writes `writes`.
Did(l, names, writes) ==
  [l EXCEPT !.steps = @ \cup names, !.absent = @ \/ AnyAbsent(writes)]

\* Every driver: after the wait for its root container; closeAllModals() up to
\* its wait.
AfterDrvRoot ==
  /\ Resolved("drv_root")
  /\ IF ~wResult
       THEN DriverReturned(FALSE, [log EXCEPT !.gated = FALSE])
       ELSE Await("drv_modals", "ModalsClosed", DEFAULT_WAIT, INTERVAL,
                  [log EXCEPT !.modalClicks = IF dom.modal = "open" THEN @ + 1 ELSE @,
                              !.drvCloseCalls = @ + 1], drv)
  /\ UNCHANGED <<tVars, store, storeOps, pageVars, config, style, version, runs>>

\* Every driver: closeAllModals() has returned (its result is not looked at);
\* the styles that need no further wait are set.
\* (AfterDrvModals_CheckResult: a driver that returns false when
\* closeAllModals() returned false.)
AfterDrvModals_CheckResult ==
  /\ Resolved("drv_modals")
  /\ IF ~wResult
       THEN /\ UNCHANGED style
            /\ DriverReturned(FALSE, log)
     ELSE IF drv.gen = "V2"
       THEN /\ style' = ApplyStyles(style, V2Styles)
            /\ DriverReturned(TRUE, Did(log, {"v2"}, V2Styles))
     ELSE IF drv.gen = "V3"
       THEN /\ style' = ApplyStyles(style, BaseStyles)
            /\ Await("drv_widgets", "Widgets", DEFAULT_WAIT, INTERVAL,
                     Did(log, {"base"}, BaseStyles), drv)
     ELSE /\ style' = ApplyStyles(style, V4Styles)
          /\ Await("drv_options", "Late", DEFAULT_WAIT, SlowInterval,
                   Did(log, {"base", "dash"}, V4Styles), drv)
  /\ UNCHANGED <<tVars, store, storeOps, pageVars, config, version, runs>>
AfterDrvModals ==
  /\ Resolved("drv_modals")
  /\ IF drv.gen = "V2"
       THEN /\ style' = ApplyStyles(style, V2Styles)
            /\ DriverReturned(TRUE, Did(log, {"v2"}, V2Styles))
     ELSE IF drv.gen = "V3"
       THEN /\ style' = ApplyStyles(style, BaseStyles)
            /\ Await("drv_widgets", "Widgets", DEFAULT_WAIT, INTERVAL,
                     Did(log, {"base"}, BaseStyles), drv)
     ELSE /\ style' = ApplyStyles(style, V4Styles)
          /\ Await("drv_options", "Late", DEFAULT_WAIT, SlowInterval,
                   Did(log, {"base", "dash"}, V4Styles), drv)
  /\ UNCHANGED <<tVars, store, storeOps, pageVars, config, version, runs>>

\* handleLiveviewV3(): after the wait for widgets, header and expand button.
\* document.querySelector(LIVE_VIEW_WRAPPER).querySelector(...) throws when the
\* wrapper is gone; the catch block returns false.
AfterDrvWidgets ==
  /\ Resolved("drv_widgets")
  /\ IF ~wResult
       THEN /\ UNCHANGED style
            /\ DriverReturned(FALSE, [log EXCEPT !.gated = FALSE])
     ELSE IF ~dom.root
       THEN /\ style' = ApplyStyles(style, V3DashStyles)
            /\ LET l == [Did(log, {"dash", "scrollable"}, V3DashStyles) EXCEPT
                           !.absent = TRUE, !.aborted = TRUE]
               IN Throws(DriverName(drv.gen), l,
                         DriverReturned(FALSE, [l EXCEPT !.caught = @ \cup {DriverName(drv.gen)}]))
     ELSE /\ style' = ApplyStyles(style, V3DashStyles \o V3WrapperStyles)
          /\ Await("drv_late", "Late", DEFAULT_WAIT, INTERVAL,
                   Did(log, {"dash", "scrollable", "viewport"}, V3DashStyles \o V3WrapperStyles), drv)
  /\ UNCHANGED <<tVars, store, storeOps, pageVars, config, version, runs>>

\* handleLiveviewV3(): after the wait for the camera-name buttons.
AfterDrvLate ==
  /\ Resolved("drv_late")
  /\ style' = (IF wResult THEN ApplyStyles(style, V3CameraStyles) ELSE style)
  /\ DriverReturned(TRUE, [Did(log, {"cameras"}, V3CameraStyles) EXCEPT !.absent = @ \/ ~wResult])
  /\ UNCHANGED <<tVars, store, storeOps, pageVars, config, version, runs>>

\* handleLiveviewV4andV5(): after the wait for the option buttons.
AfterDrvOptions ==
  /\ Resolved("drv_options")
  /\ style' = (IF wResult THEN ApplyStyles(style, V4OptionStyles) ELSE style)
  /\ Await("drv_player", "Late", DEFAULT_WAIT, SlowInterval,
           [Did(log, {"options"}, V4OptionStyles) EXCEPT !.absent = @ \/ ~wResult], drv)
  /\ UNCHANGED <<tVars, store, storeOps, pageVars, config, version, runs>>

\* handleLiveviewV4andV5(): after the wait for the player options; the error
\* wrappers are styled without a wait.
AfterDrvPlayer ==
  /\ Resolved("drv_player")
  /\ style' = ApplyStyles(IF wResult THEN ApplyStyles(style, V4PlayerStyles) ELSE style,
                          V4ErrorStyles)
  /\ DriverReturned(TRUE, [Did(log, {"player", "errors"}, V4PlayerStyles \o V4ErrorStyles)
                            EXCEPT !.absent = @ \/ ~wResult])
  /\ UNCHANGED <<tVars, store, storeOps, pageVars, config, version, runs>>

\* ------------------------------------------------------------------ the host page and the shell
\* What the page renders is monotone within one page load (an element group,
\* once rendered, stays), and the run looks at a group only in the polls of the
\* wait for it and in the synchronous code that follows a wait.  A group that
\* renders before the run waits for it is seen exactly like one that renders
\* right after that wait has started (waitUntil never polls at the call), so
\* each group is rendered during the await that precedes the code reading it.
Render(at, field, from, to) ==
  /\ pc \in at
  /\ dom[field] = from
  /\ dom' = [dom EXCEPT ![field] = to]

LoaderShows ==
  /\ Render({"run_loaderVisible"}, "loader", "pending", "visible")
  /\ UNCHANGED <<pc, wVars, tVars, store, storeOps, url, pageLabels, expiresIn, runVars>>

LoaderHides ==
  /\ Render({"run_loaderVisible", "run_loaderGone"}, "loader", "visible", "gone")
  /\ UNCHANGED <<pc, wVars, tVars, store, storeOps, url, pageLabels, expiresIn, runVars>>

\* The login form renders.  buttonInTime: not after the timeout of
\* handleLogin's wait for it.
ButtonsAppear ==
  /\ Render({"login_button"}, "buttons", FALSE, TRUE)
  /\ log' = [log EXCEPT !.buttonInTime = (wEndedBy # "timeout")]
  /\ UNCHANGED <<pc, wVars, tVars, store, storeOps, url, pageLabels, expiresIn,
                 config, style, drv, version, runs>>

VersionAppears ==
  /\ pageLabels # <<>>
  /\ Render({"run_version"}, "versionEls", <<>>, pageLabels)
  /\ UNCHANGED <<pc, wVars, tVars, store, storeOps, url, pageLabels, expiresIn, runVars>>

ModalOpens ==
  /\ Render({"drv_root"}, "modal", "pending", "open")
  /\ UNCHANGED <<pc, wVars, tVars, store, storeOps, url, pageLabels, expiresIn, runVars>>

ModalCloses ==
  /\ Render({"drv_modals"}, "modal", "open", "closed")
  /\ UNCHANGED <<pc, wVars, tVars, store, storeOps, url, pageLabels, expiresIn, runVars>>

RootAppears ==
  /\ Render({"drv_root"}, "root", FALSE, TRUE)
  /\ UNCHANGED <<pc, wVars, tVars, store, storeOps, url, pageLabels, expiresIn, runVars>>

WidgetsAppear ==
  /\ Render({"drv_modals", "drv_widgets"}, "widgets", FALSE, TRUE)
  /\ UNCHANGED <<pc, wVars, tVars, store, storeOps, url, pageLabels, expiresIn, runVars>>

LateAppear ==
  /\ Render({"drv_late", "drv_options", "drv_player"}, "late", FALSE, TRUE)
  /\ UNCHANGED <<pc, wVars, tVars, store, storeOps, url, pageLabels, expiresIn, runVars>>

\* A re-render of the host page removes the live-view container after the
\* driver's wait for it has seen it (the one exception to monotone rendering).
WrapperRemoved ==
  /\ Render({"drv_modals", "drv_widgets"}, "root", TRUE, FALSE)
  /\ UNCHANGED <<pc, wVars, tVars, store, storeOps, url, pageLabels, expiresIn, runVars>>

\* The host accepts the submitted credentials and routes away from login.
\* leftLoginInTime: after the click and before handleLogin's wait has ended.
HostLeavesLogin ==
  /\ pc = "login_redirect"
  /\ checkUrl(<<"login">>)
  /\ log.clicked
  /\ url' \in {DashUrl, LiveUrl, DevicesUrl}
  /\ log' = [log EXCEPT !.leftLoginInTime = (wState = "polling")]
  /\ UNCHANGED <<pc, wVars, tVars, store, storeOps, dom, pageLabels, expiresIn,
                 config, style, drv, version, runs>>

\* The session ends while the watchdog is armed: the host routes to login.
SessionLost ==
  /\ pc = "run_watchdog"
  /\ ~checkUrl(<<"login">>)
  /\ url' = LoginUrl
  /\ UNCHANGED <<pc, wVars, tVars, store, storeOps, dom, pageLabels, expiresIn, runVars>>

\* The shell handles a request while handleLogin waits for the login button
\* (the only read of the store after the start of a run is handleLogin's); a
\* reset is also handled while the watchdog waits (the next read is that of
\* the run after the reload).
\* main.js handleReset: store.clear()
StoreReset ==
  /\ pc \in {"login_button", "run_watchdog"}
  /\ storeOps < MaxStoreOps
  /\ storeOps' = storeOps + 1
  /\ store' = NoConfig
  /\ UNCHANGED <<pc, wVars, tVars, pageVars, runVars>>

\* main.js handleConfigSave: store.set('config', config)
ConfigSave ==
  /\ pc = "login_button"
  /\ storeOps < MaxStoreOps
  /\ storeOps' = storeOps + 1
  /\ store' \in SavedConfigs
  /\ UNCHANGED <<pc, wVars, tVars, pageVars, runVars>>

\* ------------------------------------------------------------------ the run orchestrator
\* The shell (main.js handleWindow) loads the configured URL only with a
\* complete configuration, and the configuration screen otherwise.
Init ==
  /\ pc = "load"
  /\ wState = "idle"
  /\ wCond = "none"
  /\ wTimeout = 0
  /\ wInterval = 0
  /\ wElapsed = 0
  /\ wPolls = 0
  /\ wResult = FALSE
  /\ wLastPoll = "none"
  /\ wEndedBy = "none"
  /\ pred = "false"
  /\ predMode = "never"
  /\ predTrueAt = -1
  /\ tResult = FALSE
  /\ tResolvedAt = -1
  /\ NoHelper
  /\ store \in {NoConfig, Cfg(Host, "u", "p"), Cfg(DashUrl, "u", "p")}
  /\ storeOps = 0
  /\ shell = ShellIdle
  /\ docs = 1
  /\ url \in (IF store.present THEN {LoginUrl, DashUrl, LiveUrl, DevicesUrl} ELSE {ConfigPage})
  /\ dom = DomEmpty
  /\ pageLabels \in PageLabelSets
  /\ expiresIn \in ExpiresInSet
  /\ (pageLabels = SecondGen45Page => expiresIn = <<>>)
  /\ config = NoConfig
  /\ style = {}
  /\ drv = NoDrv
  /\ version = <<>>
  /\ runs = 0
  /\ log = LogInit

Next ==
  \/ RunStart
  \/ IntervalFire
  \/ TimeoutFire
  \/ AfterLoaderVisible
  \/ AfterLoaderGone
  \/ AfterLoginButton
  \/ AfterLoginRedirect
  \/ AfterRunRedirect
  \/ AfterVersionVisible
  \/ AfterDrvRoot
  \/ AfterDrvModals
  \/ AfterDrvWidgets
  \/ AfterDrvLate
  \/ AfterDrvOptions
  \/ AfterDrvPlayer
  \/ AfterAdjust
  \/ AfterWatchdog
  \/ LoaderShows
  \/ LoaderHides
  \/ ButtonsAppear
  \/ VersionAppears
  \/ ModalOpens
  \/ ModalCloses
  \/ RootAppears
  \/ WidgetsAppear
  \/ LateAppear
  \/ WrapperRemoved
  \/ HostLeavesLogin
  \/ SessionLost
  \/ StoreReset
  \/ ConfigSave

Spec == Init /\ [][Next]_vars

\* ------------------------------------------------------------------ the mutation helpers
\* An element is [value, tracker, hasClick, style, events]: tracker is <<>>
\* without a React value tracker, else <<the tracker's value>>; events are the
\* events dispatched on it, each with the tracker as it was at the dispatch.
\* A helper returns the element as it leaves it, whether it threw to its
\* caller, the errors it logged and the events it dispatched.

\* setNativeValue(element, value); setNativeValue_NoTracker leaves the value
\* tracker alone.
setNativeValue_NoTracker(element, value) ==
  IF element = <<>>
    THEN [el |-> element, threw |-> FALSE, errors |-> 1, dispatched |-> 0]
    ELSE LET e1 == [element[1] EXCEPT !.value = value]
             ev == [type |-> "input", simulated |-> TRUE, via |-> "dispatchEvent",
                    trackerAt |-> e1.tracker]
         IN [el |-> <<[e1 EXCEPT !.events = Append(@, ev)]>>,
             threw |-> FALSE, errors |-> 0, dispatched |-> 1]
setNativeValue(element, value) ==
  IF element = <<>>
    THEN [el |-> element, threw |-> FALSE, errors |-> 1, dispatched |-> 0]
    ELSE LET e == element[1]
             lastValue == e.value
             e1 == [e EXCEPT !.value = value]
             e2 == IF e1.tracker # <<>> THEN [e1 EXCEPT !.tracker = <<lastValue>>] ELSE e1
             ev == [type |-> "input", simulated |-> TRUE, via |-> "dispatchEvent",
                    trackerAt |-> e2.tracker]
         IN [el |-> <<[e2 EXCEPT !.events = Append(@, ev)]>>,
             threw |-> FALSE, errors |-> 0, dispatched |-> 1]

\* clickElement(element): element.click(), or a dispatched MouseEvent when the
\* element has no click method.
clickElement(element) ==
  IF element = <<>>
    THEN [el |-> element, threw |-> FALSE, errors |-> 1, dispatched |-> 0]
    ELSE LET e == element[1]
             ev == [type |-> "click", simulated |-> FALSE,
                    via |-> (IF e.hasClick THEN "click" ELSE "dispatchEvent"),
                    trackerAt |-> e.tracker]
         IN [el |-> <<[e EXCEPT !.events = Append(@, ev)]>>,
             threw |-> FALSE, errors |-> 0, dispatched |-> 1]

\* setStyle(element, style, value); setStyle_Unchecked has neither the null
\* check nor the try block.
setStyle_Unchecked(element, prop, val) ==
  IF element = <<>>
    THEN [el |-> element, threw |-> TRUE, errors |-> 0, dispatched |-> 0]
    ELSE [el |-> <<[element[1] EXCEPT !.style = {t \in @ : t[1] # prop} \cup {<<prop, val>>}]>>,
          threw |-> FALSE, errors |-> 0, dispatched |-> 0]
setStyle(element, prop, val) ==
  IF element = <<>>
    THEN [el |-> element, threw |-> FALSE, errors |-> 1, dispatched |-> 0]
    ELSE [el |-> <<[element[1] EXCEPT !.style = {t \in @ : t[1] # prop} \cup {<<prop, val>>}]>>,
          threw |-> FALSE, errors |-> 0, dispatched |-> 0]

\* Arguments the helpers are called with.
HelperValues == {"", "old", "u"}
HelperProps == {"display", "maxWidth"}
HelperStyleValues == {"none", "100vw"}
HelperElements ==
  {<<>>} \cup
  {<<[value |-> v, tracker |-> t, hasClick |-> c, style |-> st, events |-> <<>>]>> :
     v \in HelperValues, t \in {<<>>, <<"">>, <<"old">>}, c \in BOOLEAN,
     st \in {{}, {<<"display", "block">>}}}

InitHelper ==
  /\ pc = "helper_idle"
  /\ wState = "idle"
  /\ wCond = "none"
  /\ wTimeout = 0
  /\ wInterval = 0
  /\ wElapsed = 0
  /\ wPolls = 0
  /\ wResult = FALSE
  /\ wLastPoll = "none"
  /\ wEndedBy = "none"
  /\ pred = "false"
  /\ predMode = "never"
  /\ predTrueAt = -1
  /\ tResult = FALSE
  /\ tResolvedAt = -1
  /\ hEl \in HelperElements
  /\ hBefore = hEl
  /\ hOp = NoOp
  /\ hOut = NoOut
  /\ store = NoConfig
  /\ storeOps = 0
  /\ shell = ShellIdle
  /\ docs = 1
  /\ url = LoginUrl
  /\ dom = DomEmpty
  /\ pageLabels = <<>>
  /\ expiresIn = <<>>
  /\ config = NoConfig
  /\ style = {}
  /\ drv = NoDrv
  /\ version = <<>>
  /\ runs = 0
  /\ log = LogInit

\* The helper has returned r to its caller.
HelperDone(name, value, prop, r) ==
  /\ pc = "helper_idle"
  /\ pc' = "helper_done"
  /\ hOp' = [name |-> name, value |-> value, prop |-> prop]
  /\ hEl' = r.el
  /\ hOut' = [threw |-> r.threw, errors |-> r.errors, dispatched |-> r.dispatched]
  /\ UNCHANGED <<hBefore, wVars, pred, predMode, predTrueAt, tResult, tResolvedAt, shell, docs,
                 store, storeOps, pageVars, runVars>>

CallSetNativeValue ==
  \E v \in HelperValues : HelperDone("setNativeValue", v, "", setNativeValue(hEl, v))

CallClickElement ==
  HelperDone("clickElement", "", "", clickElement(hEl))

CallSetStyle ==
  \E prop \in HelperProps, val \in HelperStyleValues :
    HelperDone("setStyle", val, prop, setStyle(hEl, prop, val))

NextHelper ==
  \/ CallSetNativeValue
  \/ CallClickElement
  \/ CallSetStyle

SpecHelper == InitHelper /\ [][NextHelper]_vars

\* ------------------------------------------------------------------ a driver called twice in succession
\* Pages on which the host changes nothing by itself: any combination of the
\* element groups, with or without an open modal.  The only change of such a
\* page is the modal closing on the click of closeAllModals().
StaticDoms ==
  {[loader |-> "gone", buttons |-> FALSE, versionEls |-> <<>>, modal |-> m,
    root |-> r, widgets |-> w, late |-> t, portals |-> <<>>] :
     m \in {"pending", "open"}, r \in BOOLEAN, w \in BOOLEAN, t \in BOOLEAN}

InitTwice ==
  /\ pc = "twice_idle"
  /\ wState = "idle"
  /\ wCond = "none"
  /\ wTimeout = 0
  /\ wInterval = 0
  /\ wElapsed = 0
  /\ wPolls = 0
  /\ wResult = FALSE
  /\ wLastPoll = "none"
  /\ wEndedBy = "none"
  /\ pred = "false"
  /\ predMode = "never"
  /\ predTrueAt = -1
  /\ tResult = FALSE
  /\ tResolvedAt = -1
  /\ NoHelper
  /\ store = Cfg(Host, "u", "p")
  /\ storeOps = 0
  /\ shell = ShellIdle
  /\ docs = 1
  /\ url \in {DashUrl, LiveUrl}
  /\ dom \in StaticDoms
  /\ pageLabels = <<>>
  /\ expiresIn = <<>>
  /\ config = Cfg(Host, "u", "p")
  /\ style = {}
  /\ drv \in {[gen |-> g, pass |-> 0, caller |-> "twice"] :
                g \in (IF checkUrl(<<"protect/liveview">>) THEN {"V2"} ELSE {"V3", "V4V5"})}
  /\ version = <<>>
  /\ runs = 0
  /\ log = LogInit

\* await handleLiveview*(): the first call.
TwiceCall ==
  /\ pc = "twice_idle"
  /\ BeginDriverBy("twice", drv.gen, 1, log)
  /\ UNCHANGED <<tVars, store, storeOps, pageVars, config, style, version, runs>>

\* await handleLiveview*(): the second call, right after the first returned.
TwiceAgain ==
  /\ pc = "twice_between"
  /\ BeginDriverBy("twice", drv.gen, 2, [log EXCEPT !.styleAfterFirst = style])
  /\ UNCHANGED <<tVars, store, storeOps, pageVars, config, style, version, runs>>

NextTwice ==
  \/ TwiceCall
  \/ TwiceAgain
  \/ IntervalFire
  \/ TimeoutFire
  \/ AfterDrvRoot
  \/ AfterDrvModals
  \/ AfterDrvWidgets
  \/ AfterDrvLate
  \/ AfterDrvOptions
  \/ AfterDrvPlayer
  \/ ModalCloses

SpecTwice == InitTwice /\ [][NextTwice]_vars

\* ------------------------------------------------------------------ claims on waitUntil

\* C1: a predicate that becomes true (and stays true) at an instant before
\* timeoutMs has elapsed since the call, with timeoutMs >= 0 and intervalMs > 0,
\* makes the promise resolve true.
C1_BecomesTrueResolvesTrue ==
  (pc = "test_done" /\ predMode = "monotone" /\ wTimeout >= 0 /\ wInterval > 0
     /\ predTrueAt >= 0 /\ predTrueAt < wTimeout)
    => tResult = TRUE

\* C2 (as stated): for a predicate that is never true and every timeoutMs # -1 the
\* promise resolves false, no earlier than timeoutMs and no later than
\* timeoutMs + intervalMs + MIN_DELAY after the call.
C2_NeverTrueResolvesFalseInWindow ==
  (predMode = "never" /\ wTimeout # -1) =>
    /\ (pc = "test_wait" => wElapsed <= wTimeout)
    /\ (pc = "test_done" =>
          /\ tResult = FALSE
          /\ wTimeout <= tResolvedAt
          /\ tResolvedAt <= wTimeout + wInterval + MIN_DELAY)

\* C2 (amended): for a predicate that is never true and every timeoutMs >= 0 the
\* wait is never pending after timeoutMs, and the promise resolves false no
\* earlier than timeoutMs and no later than timeoutMs + intervalMs + MIN_DELAY.
C2_NeverTrueResolvesFalseInWindow_NonNegative ==
  (predMode = "never" /\ wTimeout >= 0) =>
    /\ (pc = "test_wait" => wElapsed <= wTimeout)
    /\ (pc = "test_done" =>
          /\ tResult = FALSE
          /\ wTimeout <= tResolvedAt
          /\ tResolvedAt <= wTimeout + wInterval + MIN_DELAY)

C2_Witness ==
  /\ pc = "test_done"
  /\ predMode = "never"
  /\ wTimeout = 250
  /\ wInterval = 100
  /\ wPolls = 2
  /\ tResult = FALSE
  /\ tResolvedAt = 270

\* C3: with timeoutMs = -1 the promise never resolves false; the wait stays
\* pending while no poll has returned truthy, and it resolves true only after a
\* poll at which the predicate returned truthy.
C3_NoTimeoutNeverFalse ==
  (wTimeout = -1 /\ pc \in {"test_wait", "test_done"}) =>
    /\ wEndedBy # "timeout"
    /\ (wLastPoll # "true" => (pc = "test_wait" /\ wState = "polling"))
    /\ (wState = "settling" => (wResult = TRUE /\ wLastPoll = "true"))
    /\ (pc = "test_done" => (tResult = TRUE /\ wLastPoll = "true"))

C3_Witness ==
  /\ wTimeout = -1
  /\ predMode = "flicker"
  /\ pc = "test_done"
  /\ wPolls = 2
  /\ tResult = TRUE

\* C4: when the predicate throws on every poll the promise never resolves true,
\* the interval keeps running after each throw (every interval deadline before
\* the timeout is polled), and only the timeout callback ends the wait, with
\* false.  (The promise has no reject path: the executor takes resolve only.)
C4_ThrowingPredicateEndsByTimeout ==
  predMode = "throws" =>
    /\ wResult = FALSE
    /\ tResult = FALSE
    /\ wEndedBy \in {"none", "timeout"}
    /\ (wPolls > 0 => wLastPoll = "throw")
    /\ (wState = "polling" => (~HasTimeout(wTimeout) \/ wElapsed <= TimeoutAt))
    /\ (wEndedBy = "timeout" => (HasTimeout(wTimeout) /\ wPolls = PollsBeforeTimeout))
    /\ (pc = "test_done" => (wEndedBy = "timeout" /\ tResolvedAt = TimeoutAt + MIN_DELAY))

C4_Witness ==
  /\ predMode = "throws"
  /\ pc = "test_done"
  /\ wTimeout = 300
  /\ wInterval = 100
  /\ wPolls = 2
  /\ wLastPoll = "throw"
  /\ tResult = FALSE

\* ------------------------------------------------------------------ claims on handleLogin and run
NoKnownGeneration(v) ==
  ~Includes(v, <<"3", ".">>) /\ ~Includes(v, <<"4", ".">>) /\ ~Includes(v, <<"5", ".">>)

\* C5: handleLogin returns true if and only if the login button appeared before
\* the timeout of the wait for it, the loaded configuration has a username and
\* a password, and after the click the route stopped containing "login" before
\* the redirect wait timed out; otherwise it returns false.
C5_LoginSuccessIff ==
  log.loginResult # "none" =>
    (log.loginResult = "true"
       <=> (log.buttonInTime /\ log.loginCfgOk /\ log.leftLoginInTime))

\* C6: in a run where handleLogin returned false the run has stopped: no layout
\* driver was invoked, no version wait or detection was done, the watchdog was
\* not armed, nothing was reloaded or navigated, no style was written and
\* handleLogin was called once.
C6_LoginFailureIsTerminal ==
  log.loginResult = "false" =>
    /\ pc = "done"
    /\ wState = "idle"
    /\ log.outcome = "loginFailed"
    /\ log.loginCalls = 1
    /\ log.drivers = <<>>
    /\ ~log.versionWait
    /\ ~log.detected
    /\ ~log.armed
    /\ ~log.reloaded
    /\ ~log.navigated
    /\ style = {}

C6_Witness ==
  /\ log.loginResult = "false"
  /\ log.clicked
  /\ expiresIn # <<>>
  /\ checkUrl(<<"login">>)

\* C7: on the dashboard route a detected label "Protect M.m.p" dispatches the
\* Gen-3 driver when M = 3 and the Gen-4/5 driver when M = 4 or M = 5, for all
\* minor and patch numbers.
C7_MajorVersionDispatch ==
  \A v \in Versions :
    (log.detected /\ log.dashboard /\ version = Label(v) /\ v[1] \in {3, 4, 5}) =>
      /\ log.drivers # <<>>
      /\ log.drivers[1] = (IF v[1] = 3 THEN "V3" ELSE "V4V5")

\* C8: when no version element with text containing "Protect" is found (also
\* when the wait for the label timed out) the run does not fail: the version
\* is the Gen-3 default and, on a dashboard route, the Gen-3 driver is invoked.
C8_NoLabelDefaultsToGen3 ==
  (log.detected /\ ~log.found) =>
    /\ version = <<"Protect", " ", "3", ".", "x">>
    /\ log.outcome \in {"running", "done", "reloaded"}
    /\ (log.dashboard =>
          /\ log.drivers # <<>>
          /\ \A i \in 1..Len(log.drivers) : log.drivers[i] = "V3")

C8_Witness ==
  /\ log.detected
  /\ ~log.found
  /\ log.dashboard
  /\ dom.versionEls = <<>>
  /\ log.drivers = <<"V3", "V3">>

\* C9: in a run where a version label is found that contains none of "3.",
\* "4.", "5.", no layout driver is invoked and no style of any element is
\* changed by the run.
C9_UnsupportedVersionNoMutation ==
  (log.detected /\ log.found /\ NoKnownGeneration(version)) =>
    /\ log.drivers = <<>>
    /\ drv = NoDrv
    /\ style = {}

C9_Witness ==
  /\ log.detected
  /\ log.found
  /\ log.dashboard
  /\ version = Label(<<6, 0, 0>>)
  /\ pc = "done"

\* C10: after a missing configuration, an authentication failure or an
\* unsupported detected version the run has stopped: it performs no further
\* step, never arms the session watchdog and never reloads the page.
C10_UnrecoverableStepStopsRun ==
  (\/ log.outcome \in {"noConfig", "loginFailed"}
   \/ (log.detected /\ log.found /\ log.dashboard /\ NoKnownGeneration(version))) =>
    /\ pc = "done"
    /\ ~log.armed
    /\ ~log.reloaded

\* ------------------------------------------------------------------ claims on dispatch and re-application

\* C11: when the route contains "protect/liveview" after the loading-screen and
\* login steps, the Gen-2 driver is the only driver invoked in the run, and the
\* run neither waits for the version label nor calls getProtectVersion.
C11_LiveviewRouteSkipsDetection ==
  (log.atDispatch /\ Includes(log.routeAtDispatch, <<"protect/liveview">>)) =>
    /\ log.drivers = <<"V2">>
    /\ ~log.versionWait
    /\ ~log.detected
    /\ version = <<>>

C11_Witness ==
  /\ log.atDispatch
  /\ Includes(log.routeAtDispatch, <<"protect/liveview">>)
  /\ log.loginResult = "true"
  /\ log.results = <<TRUE>>
  /\ pageLabels # <<>>
  /\ pc = "done"

\* C12: on a page that the host does not change by itself, each layout driver
\* called twice in succession leaves every element's style as the first call
\* left it.
C12_DriverTwiceSameStyles ==
  pc = "twice_done" => style = log.styleAfterFirst

C12_Witness ==
  /\ pc = "twice_done"
  /\ drv.gen = "V4V5"
  /\ log.results = <<TRUE, TRUE>>
  /\ log.modalClicks = 1
  /\ dom.modal = "closed"
  /\ <<"v4.optionButton", "display", "none">> \in style
  /\ <<"v4.widgets", "display", "none">> \in style

\* C13: on a dashboard route classified Gen-3 or Gen-4/5 the run calls the
\* driver of that generation, and no other, exactly twice: the second call is
\* made after the first has returned and the 4000 ms delay has elapsed, and
\* the watchdog step is reached only after the second call has returned.
C13_ReapplicationOrdering ==
  LET generation == Generation(version) IN
  (log.detected /\ log.dashboard /\ generation # "unsupported") =>
    /\ Len(log.drivers) \in {1, 2}
    /\ \A i \in 1..Len(log.drivers) : log.drivers[i] = generation
    /\ Len(log.results) <= Len(log.drivers)
    /\ (Len(log.drivers) = 2 => (Len(log.results) >= 1 /\ log.secondAfter = 4000))
    /\ ((log.armed \/ log.atWatchdog \/ pc \in {"done", "load", "run_watchdog"}) =>
          (Len(log.drivers) = 2 /\ Len(log.results) = 2))

C13_Witness ==
  /\ log.detected
  /\ log.dashboard
  /\ log.armed
  /\ log.drivers = <<"V4V5", "V4V5">>
  /\ log.results = <<TRUE, TRUE>>
  /\ log.secondAfter = 4000

\* ------------------------------------------------------------------ claims on the mutation steps and helpers

\* C14: when a call of a layout driver has passed its waits for the elements
\* it requires and some mutation step found its target missing, the driver was
\* not aborted: by its return it has run every one of its mutation steps.
C14_AbsentTargetIsNoOpOnly ==
  (Len(log.drivers) > 0 /\ Len(log.results) = Len(log.drivers) /\ log.gated /\ log.absent) =>
    /\ ~log.aborted
    /\ log.steps = DriverSteps(log.drivers[Len(log.drivers)])

\* C15: setNativeValue, clickElement and setStyle called with a null target
\* return without throwing, dispatch no event and change nothing.
C15_NullTargetIsNoOp ==
  (pc = "helper_done" /\ hBefore = <<>>) =>
    /\ ~hOut.threw
    /\ hOut.dispatched = 0
    /\ hEl = <<>>

C15_Witness ==
  /\ pc = "helper_done"
  /\ hBefore = <<>>
  /\ hOp.name = "setStyle"
  /\ hOut.errors = 1

\* C16: after setNativeValue(element, V) on a non-null input element the
\* element's value is V and exactly one event was dispatched on it, an input
\* event marked simulated; an element with a value tracker had the tracker set
\* to the element's previous value before the dispatch.
C16_SetNativeValueContract ==
  (pc = "helper_done" /\ hOp.name = "setNativeValue" /\ hBefore # <<>>) =>
    /\ ~hOut.threw
    /\ hEl # <<>>
    /\ hEl[1].value = hOp.value
    /\ hOut.dispatched = 1
    /\ Len(hEl[1].events) = Len(hBefore[1].events) + 1
    /\ LET ev == hEl[1].events[Len(hEl[1].events)] IN
         /\ ev.type = "input"
         /\ ev.simulated
         /\ (hBefore[1].tracker # <<>> => ev.trackerAt = <<hBefore[1].value>>)
         /\ (hBefore[1].tracker = <<>> => ev.trackerAt = <<>>)

C16_Witness ==
  /\ pc = "helper_done"
  /\ hOp.name = "setNativeValue"
  /\ hBefore # <<>>
  /\ hBefore[1].value = "old"
  /\ hBefore[1].tracker = <<"">>
  /\ hOp.value = "u"
  /\ hEl[1].tracker = <<"old">>

\* ------------------------------------------------------------------ claims on the session watchdog

\* C17: the run reloads the page only after a poll of the armed watchdog that
\* evaluated its predicate to true: the route did not contain the configured
\* URL, or the time was strictly after (expiry - 10 minutes).  While the route
\* matches and the time is at or before that point the wait stays pending.
C17_ReloadOnlyAfterTruePoll ==
  /\ ((pc = "run_watchdog" /\ wState = "settling") =>
        /\ wEndedBy = "poll"
        /\ wLastPoll = "true"
        /\ (checkUrl(config.url) => wElapsed > expiresIn[1] - 600000))
  /\ (log.reloaded =>
        /\ log.armed
        /\ log.wdBy = "poll"
        /\ log.wdPoll = "true"
        /\ (log.wdMatched => log.wdAt > expiresIn[1] - 600000))

C17_Witness ==
  /\ log.reloaded
  /\ log.wdMatched
  /\ expiresIn = <<660000>>
  /\ log.wdAt = 120000

\* C18: when the run reaches the watchdog step and client storage has no
\* session-expiry marker, no wait is started and the watchdog is not armed;
\* the run has ended normally and never reloads the page.
C18_NoMarkerNoWatchdog ==
  (log.atWatchdog /\ expiresIn = <<>>) =>
    /\ ~log.armed
    /\ ~log.reloaded
    /\ pc = "done"
    /\ wState = "idle"
    /\ log.outcome = "done"

C18_Witness ==
  /\ log.atWatchdog
  /\ expiresIn = <<>>
  /\ log.results = <<TRUE, TRUE>>
  /\ pc = "done"

\* C19: when the trigger point (expiry - 10 minutes) is already past at the
\* moment the watchdog is armed, the first poll, 60000 ms after arming, finds
\* the predicate true: the wait ends there and the reload follows without a
\* second poll.
C19_PastTriggerReloadsAtFirstPoll ==
  (expiresIn # <<>> /\ expiresIn[1] - 600000 < 0) =>
    /\ (pc = "run_watchdog" =>
          /\ wPolls <= 1
          /\ (wState = "polling" => wPolls = 0)
          /\ (wPolls = 1 => (wState = "settling" /\ wResult /\ wElapsed = 60000)))
    /\ (log.reloaded => log.wdAt = 60000)

C19_Witness ==
  /\ expiresIn = <<300000>>
  /\ log.reloaded
  /\ log.wdMatched
  /\ log.wdAt = 60000
  /\ pc = "load"

\* C20: the reload of the watchdog leaves no wait pending and nothing of the
\* old document, and the run that the new page load starts begins from
\* scratch: it loads the configuration again, calls handleLogin exactly when
\* its route is the login route, and invokes a dashboard driver only after
\* detecting the version itself.
C20_ReloadStartsFreshRun ==
  /\ (log.reloaded =>
        (pc = "load" /\ wState = "idle" /\ drv = NoDrv /\ style = {} /\ dom = DomEmpty))
  /\ ((log.entry = "reload" /\ pc # "load") =>
        /\ runs >= 2
        /\ (storeOps = log.opsAtStart => config = store)
        /\ (~log.detected => version = <<>>)
        /\ ((log.drivers # <<>> /\ log.drivers[1] # "V2") => (log.detected /\ log.versionWait))
        /\ (log.drivers = <<>> => style = {})
        /\ (log.passedLogin => (log.loginCalls = (IF log.loginRoute THEN 1 ELSE 0)))
        /\ (~log.passedLogin => log.loginCalls = 0))

C20_Witness ==
  /\ log.entry = "reload"
  /\ runs = 2
  /\ log.loginRoute
  /\ log.loginCalls = 1
  /\ log.loginResult = "true"
  /\ log.detected
  /\ log.drivers = <<"V3", "V3">>
  /\ style # {}

\* ------------------------------------------------------------------ claims on configuration and runs

\* C21: a run that finds the route without the configured URL (on a page that
\* is not the configuration screen) sets the location to the configured URL
\* and ends there: it has started no wait, called neither handleLogin nor a
\* layout driver, written no style and not reached the watchdog step.
C21_NavigateAndExit ==
  log.navigated =>
    /\ pc = "load"
    /\ wState = "idle"
    /\ log.outcome = "navigated"
    /\ url = config.url
    /\ ~log.passedLogin
    /\ log.loginCalls = 0
    /\ log.drivers = <<>>
    /\ ~log.versionWait
    /\ ~log.atWatchdog
    /\ ~log.armed
    /\ style = {}

C21_Witness ==
  /\ log.navigated
  /\ log.entry = "first"
  /\ config = Cfg(DashUrl, "u", "p")
  /\ url = DashUrl
  /\ runs = 1

\* C22: whenever handleLogin has filled the credential fields or clicked the
\* login control, the configuration it used has a non-empty url, username
\* and password.
C22_LoginUsesCompleteConfig ==
  (log.filled \/ log.clicked) =>
    /\ log.loginConfig.present
    /\ log.loginConfig.url # <<>>
    /\ log.loginConfig.username # ""
    /\ log.loginConfig.password # ""

C22_Witness ==
  /\ log.filled
  /\ log.clicked
  /\ log.loginConfig = Cfg(Host, "u", "p")
  /\ pc = "login_redirect"

\* C23: within one run the configuration is fetched from the store once, at
\* the start of run(), and handleLogin works with that value also when the
\* store has changed since.
C23_ConfigFetchedOncePerRun ==
  /\ log.configLoads <= 1
  /\ (log.loginConfig # NoConfig => log.loginConfig = config)
  /\ ((log.loginCalls = 1 /\ log.buttonInTime /\ log.loginResult # "none"
        /\ CredentialsPresent(config)) => log.filled)

\* C24: at most one run is active at a time: every document starts exactly
\* one run, and when a document's run starts the run of the previous document
\* has ended by navigating or reloading, with no wait of it pending.
C24_OneRunPerDocument ==
  /\ runs <= docs
  /\ (pc = "load" =>
        /\ runs = docs - 1
        /\ wState = "idle"
        /\ drv = NoDrv
        /\ (runs > 0 => log.outcome \in {"navigated", "reloaded"}))
  /\ (pc # "load" => runs = docs)
  /\ (pc \notin {"load", "done"} => log.outcome = "running")
  /\ (pc = "done" => log.outcome \notin {"running", "navigated", "reloaded"})

C24_Witness ==
  /\ docs = 2
  /\ runs = 2
  /\ log.entry = "reload"
  /\ pc = "login_redirect"
  /\ wState = "polling"

(***************************************************************************)
(* The shell: main.js decides what the window shows at start-up and        *)
(* handles the IPC messages of the page; the keydown listener of           *)
(* preload.js sends them for F9 and F10.  shell.key, shell.sent and        *)
(* shell.confirm describe the last key press and stay until the next user  *)
(* input; shell.inbox is the queue of messages main.js has not handled.    *)
(***************************************************************************)
MaxInputs == 3

\* What the store file may hold when the application starts.
ShellStores ==
  {NoConfig} \cup {Cfg(u, n, p) : u \in {<<>>, DashUrl}, n \in {"", "u"}, p \in {"", "p"}}

\* What the form of config.html submits: its three inputs are `required`.
FormConfigs == {Cfg(DashUrl, "u", "p"), Cfg(LiveUrl, "u", "p")}

Msg(type, by, c) == [type |-> type, by |-> by, config |-> c]

\* handleWindow's test: store.has('config') and
\* !(!config || !config.url || !config.username || !config.password).
ConfigComplete_NoPassword(c) == c.present /\ c.url # <<>> /\ c.username # ""
ConfigComplete(c) == c.present /\ c.url # <<>> /\ c.username # "" /\ c.password # ""

\* The showResetConfirmation handler: buttons ['Cancel', 'Reset'],
\* `return result.response === 1`.
DialogButtons == {0, 1}
DialogConfirms(response) == response = 1

\* The keydown listener after the confirmation resolved: reset and restart
\* only `if (confirmed)`.
ResetAfterConfirm_Always(confirmed) == <<"reset", "restart">>
ResetAfterConfirm(confirmed) == IF confirmed THEN <<"reset", "restart">> ELSE <<>>

ShellUnchanged ==
  UNCHANGED <<wVars, testVars, docs, storeOps, pageVars, runVars>>

\* The keys of the store: 'config' when a configuration is stored, and the
\* others.
StoreKeys == (IF store.present THEN {"config"} ELSE {}) \cup shell.extraKeys

\* PORTABLE_CONFIG.enabled
PortableEnabled == FALSE

\* The keys handleConfigSave writes: store.set('config', config)
\* (SaveKeys_WithInit: also store.set('init', true)).
SaveKeys_WithInit == {"config", "init"}
SaveKeys == {"config"}

\* mainWindow.on('close'): the bounds are stored when the store has the key
\* 'init', the application is not portable and the window is not minimized.
\* The keys besides 'config' after the handler.
CloseHandler(minimized) ==
  IF "init" \in StoreKeys /\ ~PortableEnabled /\ ~minimized
    THEN shell.extraKeys \cup {"bounds"}
    ELSE shell.extraKeys

\* A user input is possible when the window shows something and main.js has
\* handled everything sent so far.
InputPossible ==
  /\ pc = "shell_open"
  /\ shell.inbox = <<>>
  /\ shell.inputs < MaxInputs

Pressed(key, types) ==
  [shell EXCEPT !.key = key, !.confirm = "none", !.response = -1, !.sent = types,
                !.inbox = [i \in 1..Len(types) |-> Msg(types[i], "key", NoConfig)],
                !.storeAtPress = store, !.cleared = "none", !.inputs = @ + 1]

InitShell ==
  /\ pc = "shell_start"
  /\ wState = "idle"
  /\ wCond = "none"
  /\ wTimeout = 0
  /\ wInterval = 0
  /\ wElapsed = 0
  /\ wPolls = 0
  /\ wResult = FALSE
  /\ wLastPoll = "none"
  /\ wEndedBy = "none"
  /\ pred = "false"
  /\ predMode = "never"
  /\ predTrueAt = -1
  /\ tResult = FALSE
  /\ tResolvedAt = -1
  /\ NoHelper
  /\ store \in ShellStores
  /\ storeOps = 0
  /\ shell = [ShellIdle EXCEPT !.window = "none"]
  /\ docs = 1
  /\ url = ConfigPage
  /\ dom = DomEmpty
  /\ pageLabels = <<>>
  /\ expiresIn = <<>>
  /\ config = NoConfig
  /\ style = {}
  /\ drv = NoDrv
  /\ version = <<>>
  /\ runs = 0
  /\ log = LogInit

\* handleWindow(window): the configuration screen unless the stored
\* configuration is complete; else loadURL(config.url), and the error screen
\* when that fails.
handleWindow ==
  /\ pc = "shell_start"
  /\ \E loaded \in BOOLEAN :
       shell' = [shell EXCEPT
                   !.storeAtLaunch = store,
                   !.loadURL = ConfigComplete(store),
                   !.window = IF ~ConfigComplete(store) THEN "config"
                              ELSE IF loaded THEN "target" ELSE "error"]
  /\ pc' = "shell_open"
  /\ UNCHANGED store
  /\ ShellUnchanged

\* keydown with event.key === 'F9'.
PressF9 ==
  /\ InputPossible
  /\ shell' = Pressed("F9", <<"restart">>)
  /\ UNCHANGED <<pc, store>>
  /\ ShellUnchanged

\* keydown with event.key === 'F10': invoke('showResetConfirmation') and wait.
PressF10 ==
  /\ InputPossible
  /\ shell' = [Pressed("F10", <<>>) EXCEPT !.confirm = "pending"]
  /\ pc' = "shell_dialog"
  /\ UNCHANGED store
  /\ ShellUnchanged

\* keydown with any other key.
PressOther ==
  /\ InputPossible
  /\ shell' = Pressed("other", <<>>)
  /\ UNCHANGED <<pc, store>>
  /\ ShellUnchanged

\* The user answers the dialog; the invoke resolves and the listener goes on.
showResetConfirmation ==
  /\ pc = "shell_dialog"
  /\ \E response \in DialogButtons :
       LET confirmed == DialogConfirms(response)
           types == ResetAfterConfirm(confirmed)
       IN shell' = [shell EXCEPT
                      !.response = response,
                      !.confirm = IF confirmed THEN "true" ELSE "false",
                      !.sent = types,
                      !.inbox = [i \in 1..Len(types) |-> Msg(types[i], "key", NoConfig)]]
  /\ pc' = "shell_open"
  /\ UNCHANGED store
  /\ ShellUnchanged

\* The form of the configuration screen is submitted: configSave(config),
\* then restart.
SubmitConfig ==
  /\ InputPossible
  /\ shell.window = "config"
  /\ \E c \in FormConfigs :
       shell' = [shell EXCEPT !.key = "none", !.confirm = "none", !.response = -1,
                              !.sent = <<>>, !.cleared = "none", !.inputs = @ + 1,
                              !.inbox = <<Msg("configSave", "form", c),
                                          Msg("restart", "form", NoConfig)>>]
  /\ UNCHANGED <<pc, store>>
  /\ ShellUnchanged

\* The button of the fallback error screen: reset, then restart.
ClickResetButton ==
  /\ InputPossible
  /\ shell.window = "error"
  /\ shell' = [shell EXCEPT !.key = "none", !.confirm = "none", !.response = -1,
                            !.sent = <<>>, !.cleared = "none", !.inputs = @ + 1,
                            !.inbox = <<Msg("reset", "button", NoConfig),
                                        Msg("restart", "button", NoConfig)>>]
  /\ UNCHANGED <<pc, store>>
  /\ ShellUnchanged

\* ipcMain.on('reset', handleReset): store.clear().
handleReset ==
  /\ shell.inbox # <<>>
  /\ Head(shell.inbox).type = "reset"
  /\ store' = NoConfig
  /\ shell' = [shell EXCEPT !.inbox = Tail(@), !.cleared = Head(shell.inbox).by,
                            !.extraKeys = {}]
  /\ UNCHANGED pc
  /\ ShellUnchanged

\* ipcMain.on('configSave', handleConfigSave): store.set('config', config).
handleConfigSave ==
  /\ shell.inbox # <<>>
  /\ Head(shell.inbox).type = "configSave"
  /\ store' = Head(shell.inbox).config
  /\ shell' = [shell EXCEPT !.inbox = Tail(@),
                            !.extraKeys = @ \cup (SaveKeys \ {"config"})]
  /\ UNCHANGED pc
  /\ ShellUnchanged

\* ipcMain.handle('configLoad', handleConfigLoad): store.get('config'), which
\* the page that asked receives.
handleConfigLoad ==
  /\ pc = "shell_open"
  /\ shell.inbox = <<>>
  /\ config' = store
  /\ UNCHANGED <<pc, store, shell>>
  /\ UNCHANGED <<wVars, testVars, docs, storeOps, pageVars, style, drv, version, runs, log>>

\* ipcMain.on('restart', handleRestart): app.relaunch(), app.quit(); the
\* window closes (its close handler runs) and the new instance starts with
\* the store as it is.
handleRestart ==
  /\ shell.inbox # <<>>
  /\ Head(shell.inbox).type = "restart"
  /\ \E minimized \in BOOLEAN :
       shell' = [shell EXCEPT !.inbox = <<>>, !.window = "none", !.loadURL = FALSE,
                              !.launches = @ + 1, !.extraKeys = CloseHandler(minimized)]
  /\ pc' = "shell_start"
  /\ config' = NoConfig
  /\ UNCHANGED store
  /\ UNCHANGED <<wVars, testVars, docs, storeOps, pageVars, style, drv, version, runs, log>>

\* The user closes the window: the close handler runs and the application
\* quits; it is started again later.
CloseWindow ==
  /\ InputPossible
  /\ \E minimized \in BOOLEAN :
       shell' = [shell EXCEPT !.key = "none", !.confirm = "none", !.response = -1,
                              !.sent = <<>>, !.cleared = "none", !.inputs = @ + 1,
                              !.window = "none", !.loadURL = FALSE, !.launches = @ + 1,
                              !.extraKeys = CloseHandler(minimized)]
  /\ pc' = "shell_start"
  /\ config' = NoConfig
  /\ UNCHANGED store
  /\ UNCHANGED <<wVars, testVars, docs, storeOps, pageVars, style, drv, version, runs, log>>

NextShell ==
  \/ handleWindow
  \/ PressF9
  \/ PressF10
  \/ PressOther
  \/ showResetConfirmation
  \/ SubmitConfig
  \/ ClickResetButton
  \/ handleReset
  \/ handleConfigSave
  \/ handleConfigLoad
  \/ handleRestart
  \/ CloseWindow

SpecShell == InitShell /\ [][NextShell]_vars

\* C25: F9 sends exactly one restart and no reset; F10 asks for confirmation
\* and sends reset then restart exactly when the confirmation resolved true,
\* nothing when it resolved false; a key press clears the store only with a
\* confirmed dialog.
C25_KeyboardControl ==
  /\ (shell.key = "F9" => shell.sent = <<"restart">>)
  /\ (shell.key = "other" => shell.sent = <<>>)
  /\ (shell.key = "F10" =>
        /\ shell.confirm \in {"pending", "true", "false"}
        /\ (shell.confirm = "true" <=> shell.sent = <<"reset", "restart">>)
        /\ (shell.confirm # "true" => shell.sent = <<>>)
        /\ (shell.confirm = "true" <=> shell.response = 1))
  /\ (shell.cleared = "key" => shell.key = "F10" /\ shell.confirm = "true")
  /\ (shell.key # "none" /\ ~(shell.key = "F10" /\ shell.confirm = "true")
        => store = shell.storeAtPress)
  /\ (shell.key = "F10" /\ shell.confirm = "true" /\ shell.inbox = <<>>
        => store = NoConfig /\ shell.launches > 1)

C25_Witness ==
  /\ shell.key = "F10"
  /\ shell.confirm = "true"
  /\ shell.sent = <<"reset", "restart">>
  /\ shell.storeAtPress = Cfg(DashUrl, "u", "p")
  /\ shell.cleared = "key"
  /\ store = NoConfig
  /\ shell.launches = 2
  /\ shell.window = "config"

\* C26: the window loads the configured URL only when the store holds a
\* configuration with a non-empty url, username and password; otherwise it
\* shows the configuration screen and does not load the target.
C26_StartupGating ==
  LET c == shell.storeAtLaunch
      complete == c.present /\ c.url # <<>> /\ c.username # "" /\ c.password # ""
  IN shell.window \in {"config", "target", "error"} =>
       /\ (shell.loadURL => complete)
       /\ (shell.window = "target" => shell.loadURL)
       /\ (~complete => shell.window = "config" /\ ~shell.loadURL)

C26_Witness ==
  /\ shell.window = "target"
  /\ shell.launches = 2
  /\ shell.inputs = 1
  /\ shell.loadURL
  /\ shell.storeAtLaunch = Cfg(LiveUrl, "u", "p")

\* C27: a Gen-2 driver execution does exactly one wait (for the viewport
\* wrapper), never calls closeAllModals and clicks no modal close control.
C27_V2SingleWaitNoModals ==
  drv.gen = "V2" =>
    /\ log.drvWaits = 1
    /\ log.drvCloseCalls = 0
    /\ log.modalClicks = 0

(***************************************************************************)
(* closeAllModals() on a page with a list of modal portals.  A portal has  *)
(* `children` child elements now, its content has a close control (an svg) *)
(* or not, and `clicks` counts the click events dispatched on that control.*)
(***************************************************************************)
MaxPortals == 2

Portal(n, c) == [children |-> n, close |-> c, clicks |-> 0]
PortalKinds == {Portal(n, c) : n \in {0, 1}, c \in BOOLEAN}
PortalLists ==
  UNION {[1..n -> PortalKinds] : n \in 0..MaxPortals}

\* elementExists(modalPortal.querySelectorAll('svg')): the portal has content
\* and the content has a close control.
HasCloseControl(portal) == portal.children > 0 /\ portal.close

\* The forEach of closeAllModals: clickElement on the first svg of each portal
\* that has one.
ClickCloseControls(portals) ==
  [i \in 1..Len(portals) |->
     IF HasCloseControl(portals[i])
       THEN [portals[i] EXCEPT !.clicks = @ + 1]
       ELSE portals[i]]

ModalsUnchanged ==
  UNCHANGED <<tVars, store, storeOps, url, pageLabels, expiresIn, config, style, version, runs>>

InitModals ==
  /\ pc = "modals_idle"
  /\ wState = "idle"
  /\ wCond = "none"
  /\ wTimeout = 0
  /\ wInterval = 0
  /\ wElapsed = 0
  /\ wPolls = 0
  /\ wResult = FALSE
  /\ wLastPoll = "none"
  /\ wEndedBy = "none"
  /\ pred = "false"
  /\ predMode = "never"
  /\ predTrueAt = -1
  /\ tResult = FALSE
  /\ tResolvedAt = -1
  /\ NoHelper
  /\ store = NoConfig
  /\ storeOps = 0
  /\ shell = ShellIdle
  /\ docs = 1
  /\ url = DashUrl
  /\ \E ps \in PortalLists : dom = [DomEmpty EXCEPT !.portals = ps]
  /\ pageLabels = <<>>
  /\ expiresIn = <<>>
  /\ config = NoConfig
  /\ style = {}
  /\ drv = NoDrv
  /\ version = <<>>
  /\ runs = 0
  /\ log = LogInit

\* closeAllModals() up to its await; when the try block throws before the
\* wait, the catch block returns false.
closeAllModals ==
  /\ pc = "modals_idle"
  /\ \E threw \in BOOLEAN :
       IF threw
         THEN /\ pc' = "modals_done"
              /\ log' = [log EXCEPT !.drvCloseCalls = @ + 1, !.closeResult = "false"]
              /\ UNCHANGED <<wVars, dom, drv>>
         ELSE /\ dom' = [dom EXCEPT !.portals = ClickCloseControls(@)]
              /\ Await("modals_wait", "ModalsClosed", DEFAULT_WAIT, INTERVAL,
                       [log EXCEPT !.drvCloseCalls = @ + 1], NoDrv)
  /\ ModalsUnchanged

\* `return await waitUntil(...)`.
closeAllModalsReturned ==
  /\ Resolved("modals_wait")
  /\ pc' = "modals_done"
  /\ wState' = "idle"
  /\ log' = [log EXCEPT !.closeResult = Truth(wResult)]
  /\ UNCHANGED <<wCond, wTimeout, wInterval, wElapsed, wPolls, wResult, wLastPoll, wEndedBy,
                 dom, drv>>
  /\ ModalsUnchanged

\* The host page removes the content of a portal (after a click or by itself).
PortalCloses ==
  /\ pc = "modals_wait"
  /\ wState = "polling"
  /\ \E i \in 1..Len(dom.portals) :
       /\ dom.portals[i].children > 0
       /\ dom' = [dom EXCEPT !.portals[i].children = 0]
  /\ UNCHANGED <<pc, wVars, log, drv>>
  /\ ModalsUnchanged

\* The host page opens a modal in an empty portal.
PortalOpens ==
  /\ pc = "modals_wait"
  /\ wState = "polling"
  /\ \E i \in 1..Len(dom.portals) :
       /\ dom.portals[i].children = 0
       /\ dom' = [dom EXCEPT !.portals[i].children = 1]
  /\ UNCHANGED <<pc, wVars, log, drv>>
  /\ ModalsUnchanged

NextModals ==
  \/ closeAllModals
  \/ IntervalFire
  \/ TimeoutFire
  \/ closeAllModalsReturned
  \/ PortalCloses
  \/ PortalOpens

SpecModals == InitModals /\ [][NextModals]_vars

\* C28: closeAllModals clicks the close control of every portal that has one
\* and then waits; it returns true exactly when a poll before the default
\* timeout finds every portal without children (also with no portal at all),
\* false at the timeout and false when an exception is thrown.
C28_CloseAllModalsContract ==
  [][LET n == Len(dom.portals)
         empty == \A i \in 1..n : dom.portals[i].children = 0
     IN /\ (pc = "modals_idle" /\ pc' = "modals_wait" =>
              \A i \in 1..n :
                dom'.portals[i].clicks =
                  (IF dom.portals[i].children > 0 /\ dom.portals[i].close THEN 1 ELSE 0))
        /\ (pc = "modals_idle" /\ pc' = "modals_done" => log'.closeResult = "false")
        /\ (pc = "modals_wait" /\ wPolls' = wPolls + 1 =>
              /\ wElapsed' < DEFAULT_WAIT
              /\ ((wState' = "settling" /\ wResult') <=> empty)
              /\ (~empty => wState' = "polling"))
        /\ (pc = "modals_wait" /\ wState = "polling" /\ wState' = "settling"
              /\ wPolls' = wPolls => ~wResult' /\ wElapsed' = DEFAULT_WAIT)
        /\ (pc = "modals_wait" /\ pc' = "modals_done" =>
              log'.closeResult = (IF wResult THEN "true" ELSE "false"))
    ]_vars

C28_Witness ==
  /\ pc = "modals_done"
  /\ log.closeResult = "true"
  /\ wPolls = 2
  /\ Len(dom.portals) = 2
  /\ dom.portals[1] = [children |-> 0, close |-> TRUE, clicks |-> 1]
  /\ dom.portals[2] = [children |-> 0, close |-> FALSE, clicks |-> 0]

\* C29: run() never rejects and handleLogin and the layout drivers never
\* throw, also when configLoad rejects or a driver step dereferences a removed
\* element: every exception ends in the catch block of the function it
\* happens in, which returns (false, for handleLogin and the drivers).
C29_NoCrash ==
  /\ ~log.rejected
  /\ log.threw = {}
  /\ log.outcome # "rejected"
  /\ log.loginResult \in {"none", "true", "false"}
  /\ \A i \in 1..Len(log.results) : log.results[i] \in BOOLEAN
  /\ ("run" \in log.caught => pc = "done" /\ log.outcome = "error")
  /\ ("handleLogin" \in log.caught => log.loginResult = "false")
  /\ (log.aborted /\ Len(log.results) = Len(log.drivers)
        => "handleLiveviewV3" \in log.caught /\ ~log.results[Len(log.results)])

C29_Witness ==
  /\ log.caught = {"handleLiveviewV3"}
  /\ log.aborted
  /\ log.drivers = <<"V3", "V3">>
  /\ log.results = <<TRUE, FALSE>>
  /\ pc = "run_watchdog"

(***************************************************************************)
(* Progress of a run.  The steps of the page's own code are the callbacks  *)
(* of the timers of waitUntil and wait and the continuations of run()      *)
(* after each await; the event loop runs a callback that is due, so these  *)
(* steps are weakly fair.  Nothing is assumed about the host page, the     *)
(* user or the store.                                                      *)
(***************************************************************************)
ProgramStep ==
  \/ RunStart
  \/ IntervalFire
  \/ TimeoutFire
  \/ AfterLoaderVisible
  \/ AfterLoaderGone
  \/ AfterLoginButton
  \/ AfterLoginRedirect
  \/ AfterRunRedirect
  \/ AfterVersionVisible
  \/ AfterDrvRoot
  \/ AfterDrvModals
  \/ AfterDrvWidgets
  \/ AfterDrvLate
  \/ AfterDrvOptions
  \/ AfterDrvPlayer
  \/ AfterAdjust
  \/ AfterWatchdog

\* The pages progress is checked on: a complete configuration, the window on
\* the dashboard or on a Gen-2 live view (the login route follows a lost
\* session), a Protect 3 or Protect 4 label, with and without the
\* session-expiry marker.
LiveLabels == {<<OtherLabel, Label(<<3, 40, 2>>)>>, <<OtherLabel, Label(<<4, 1, 0>>)>>}

InitLive ==
  /\ Init
  /\ store = Cfg(Host, "u", "p")
  /\ url \in {DashUrl, LiveUrl}
  /\ pageLabels \in LiveLabels
  /\ expiresIn \in {<<>>, <<660000>>}

SpecLive == InitLive /\ [][Next]_vars /\ WF_vars(ProgramStep)

\* C30: every wait but the watchdog's has a finite timeout and one waiter at
\* most is pending, so a run that has not armed the watchdog ends or arms it,
\* and a run that armed it (the expiry is a number) reloads the page: the
\* armed watchdog is left only by the reload, and every run in progress
\* comes to its end (return, navigation or reload).
C30_RunTerminates ==
  /\ [](wState # "idle" /\ pc # "run_watchdog" => wTimeout >= 0)
  /\ [](wState # "idle" => pc \notin {"load", "done"})
  /\ [](pc = "run_watchdog" => expiresIn # <<>> /\ wTimeout = -1)
  /\ [][pc = "run_watchdog" /\ pc' # pc => pc' = "load" /\ log'.outcome = "reloaded"]_vars
  /\ (pc \notin {"load", "done"} ~> pc \in {"load", "done"})

C30_Witness ==
  /\ pc = "load"
  /\ log.outcome = "reloaded"
  /\ log.wdBy = "poll"
  /\ log.wdAt = 2 * WatchdogInterval
  /\ log.drivers = <<"V4V5", "V4V5">>

\* ------------------------------------------------------------------ claims on the timers of waitUntil

C32_OutcomeCommittedOnce ==
  [][/\ (wState = "polling" /\ wState' # "polling") =>
          /\ wState' = "settling"
          /\ tResolvedAt' = -1
          /\ \/ wEndedBy' = "poll" /\ wLastPoll' = "true" /\ wResult' = TRUE
             \/ wEndedBy' = "timeout" /\ wResult' = FALSE /\ wPolls' = wPolls
     /\ wState = "settling" =>
          /\ wPolls' = wPolls
          /\ wLastPoll' = wLastPoll
          /\ wResult' = wResult
          /\ wEndedBy' = wEndedBy
          /\ wElapsed' = wElapsed
          /\ \/ wState' = "settling" /\ pc' = pc /\ tResolvedAt' = -1
             \/ /\ wState' = "idle"
                /\ pc' = "test_done"
                /\ tResult' = wResult
                /\ tResolvedAt' = wElapsed + MIN_DELAY
     /\ pc = "test_done" => FALSE
    ]_vars

C32_Witness ==
  /\ pc = "test_done"
  /\ predMode = "flicker"
  /\ wEndedBy = "poll"
  /\ wLastPoll = "true"
  /\ pred = "false"
  /\ wPolls = 1
  /\ tResult = TRUE
  /\ tResolvedAt = wInterval + MIN_DELAY

\* ------------------------------------------------------------------ the dispatch on the version label
\* Runs on a dashboard (or another Protect route) whose version label is one of
\* a range of releases: majors 2 to 6, minors and patches with and without a
\* final 3, 4 or 0.  The page shows the label, nothing else renders; the
\* session-expiry marker is absent or within the watchdog's offset.  The
\* configured URL is the console's address, which every route contains.
DispatchVersions ==
  {<<major, minor, patch>> : major \in 2..6, minor \in {0, 3, 13, 14, 30}, patch \in {0, 3}}

DispatchLabelSets ==
  {<<Label(v)>> : v \in DispatchVersions} \cup {<<OtherLabel, Label(v)>> : v \in DispatchVersions}

InitDispatch ==
  /\ pc = "load"
  /\ wState = "idle"
  /\ wCond = "none"
  /\ wTimeout = 0
  /\ wInterval = 0
  /\ wElapsed = 0
  /\ wPolls = 0
  /\ wResult = FALSE
  /\ wLastPoll = "none"
  /\ wEndedBy = "none"
  /\ pred = "false"
  /\ predMode = "never"
  /\ predTrueAt = -1
  /\ tResult = FALSE
  /\ tResolvedAt = -1
  /\ NoHelper
  /\ store = Cfg(Host, "u", "p")
  /\ storeOps = 0
  /\ shell = ShellIdle
  /\ docs = 1
  /\ url \in {DashUrl, DevicesUrl}
  /\ dom = DomEmpty
  /\ pageLabels \in DispatchLabelSets
  /\ expiresIn \in {<<>>, <<300000>>}
  /\ config = NoConfig
  /\ style = {}
  /\ drv = NoDrv
  /\ version = <<>>
  /\ runs = 0
  /\ log = LogInit

NextDispatch ==
  \/ RunStart
  \/ IntervalFire
  \/ TimeoutFire
  \/ AfterLoaderVisible
  \/ AfterVersionVisible
  \/ AfterDrvRoot
  \/ AfterAdjust
  \/ AfterWatchdog
  \/ VersionAppears

SpecDispatch == InitDispatch /\ [][NextDispatch]_vars

C34_DriverResultIgnored ==
  (log.results # <<>> /\ log.drivers[1] # "V2") =>
    /\ log.outcome \in {"running", "done", "reloaded"}
    /\ (Len(log.results) = 1 /\ Len(log.drivers) = 1) => pc = "run_adjust"
    /\ Len(log.drivers) = 2 =>
         /\ log.drivers[2] = log.drivers[1]
         /\ log.secondAfter = UI_ADJUSTMENT
    /\ Len(log.results) = 2 =>
         /\ log.atWatchdog
         /\ \/ pc = "run_watchdog" /\ log.armed
            \/ pc = "done" /\ log.outcome = "done" /\ ~log.armed
            \/ pc = "load" /\ log.outcome = "reloaded"

C34_Witness ==
  /\ log.drivers = <<"V3", "V3">>
  /\ log.results = <<FALSE, FALSE>>
  /\ dom.root
  /\ ~dom.widgets
  /\ log.secondAfter = UI_ADJUSTMENT
  /\ pc = "run_watchdog"
  /\ log.armed

\* C35: no driver looks at what closeAllModals() returned.  When its wait has
\* ended, by a poll that found every portal empty or by the timeout with a
\* modal still open, the driver goes on the same way: the Gen-2 driver sets its
\* styles and returns true, the Gen-3 driver sets the base styles and waits for
\* the widgets, the Gen-4/5 driver sets the base and dashboard styles and waits
\* for the option buttons; and a call that ends with the modal still open, the
\* root container and the widgets having been found, has gone through every
\* step of its driver and returned true.
C35_CloseResultIgnored ==
  /\ [][(pc = "drv_modals" /\ pc' # "drv_modals") =>
          /\ wState = "settling"
          /\ drv.gen = "V2" =>
               /\ style' = ApplyStyles(style, V2Styles)
               /\ log'.results = Append(log.results, TRUE)
          /\ drv.gen = "V3" =>
               /\ style' = ApplyStyles(style, BaseStyles)
               /\ pc' = "drv_widgets"
               /\ log'.results = log.results
          /\ drv.gen = "V4V5" =>
               /\ style' = ApplyStyles(style, V4Styles)
               /\ pc' = "drv_options"
               /\ log'.results = log.results
       ]_vars
  /\ [](pc \in {"twice_between", "twice_done"} /\ dom.modal = "open" /\ log.gated /\ ~log.aborted =>
          /\ log.steps = DriverSteps(drv.gen)
          /\ log.results[Len(log.results)] = TRUE)

C35_Witness ==
  /\ pc = "twice_done"
  /\ drv.gen = "V4V5"
  /\ dom.modal = "open"
  /\ log.modalClicks = 2
  /\ log.results = <<TRUE, TRUE>>
  /\ log.steps = DriverSteps("V4V5")
  /\ <<"nav", "display", "none">> \in style

\* C36: a run that called the Gen-2 driver ends when that call returns, with
\* true or with false: it calls no other driver, does not wait for the version
\* label, never reaches the watchdog block (the expiry marker is not read, no
\* watchdog wait is started) and reloads nothing, whatever the marker holds.
C36_V2NeverArmsWatchdog ==
  (log.drivers # <<>> /\ log.drivers[1] = "V2") =>
    /\ log.drivers = <<"V2">>
    /\ ~log.versionWait
    /\ ~log.atWatchdog
    /\ ~log.armed
    /\ ~log.reloaded
    /\ pc \notin {"run_watchdog", "run_adjust", "load"}
    /\ log.results = <<>> => (pc \in {"drv_root", "drv_modals"} /\ log.outcome = "running")
    /\ log.results # <<>> =>
         (Len(log.results) = 1 /\ pc = "done" /\ log.outcome = "v2done")

C36_Witness ==
  /\ log.drivers = <<"V2">>
  /\ log.results = <<TRUE>>
  /\ expiresIn = <<300000>>
  /\ PastTrigger(0)
  /\ pc = "done"
  /\ log.outcome = "v2done"

\* C37 (as stated): when the configured URL contains neither
\* "protect/liveview" nor "protect/dashboard", a run that reaches the dispatch
\* calls no layout driver, whatever the version; it still waits for the version
\* label and then is at the watchdog step, armed exactly when the expiry marker
\* is present.
C37_NoDriverOffDashboard ==
  (log.atDispatch /\ ~Includes(config.url, <<"protect/liveview">>)
     /\ ~Includes(config.url, <<"protect/dashboard">>)) =>
    /\ log.drivers = <<>>
    /\ log.versionWait
    /\ ~log.detected => pc = "run_version"
    /\ log.detected => (log.atWatchdog /\ (log.armed <=> expiresIn # <<>>))

\* C37 (amended): the same for the route the window is on when run() makes
\* its tests (document.URL), which the configured URL is only a part of.
C37_NoDriverOffDashboard_ActiveRoute ==
  (log.atDispatch /\ ~Includes(log.routeAtDispatch, <<"protect/liveview">>)
     /\ ~Includes(log.routeAtDispatch, <<"protect/dashboard">>)) =>
    /\ log.drivers = <<>>
    /\ log.versionWait
    /\ ~log.detected => pc = "run_version"
    /\ log.detected =>
         /\ ~log.dashboard
         /\ log.atWatchdog
         /\ log.armed <=> expiresIn # <<>>

C37_Witness ==
  /\ log.atDispatch
  /\ log.routeAtDispatch = DevicesUrl
  /\ version = Label(<<4, 0, 0>>)
  /\ Generation(version) = "V4V5"
  /\ log.drivers = <<>>
  /\ log.versionWait
  /\ expiresIn = <<300000>>
  /\ log.armed
  /\ pc = "run_watchdog"

\* ------------------------------------------------------------------ claims on the reload cycle

\* C38: nothing limits consecutive reloads.  After every reload of the
\* watchdog, that of a run which a reload started included, the load listener
\* of the new document starts a run again (the model stops at MaxRuns runs, the
\* code at none); and a run that arms the watchdog with the expiry marker at or
\* before (now + WatchdogOffset), again whichever way it was started, ends its
\* wait at the first poll, WatchdogInterval after arming, and reloads.
C38_ReloadsNotBounded ==
  /\ (pc = "load" /\ log.outcome = "reloaded" /\ runs < MaxRuns) => ENABLED RunStart
  /\ (log.armed /\ expiresIn # <<>> /\ expiresIn[1] <= WatchdogOffset) =>
       /\ (pc = "run_watchdog" /\ wState = "polling") => wPolls = 0
       /\ (pc = "run_watchdog" /\ wState = "settling") =>
            (wPolls = 1 /\ wResult /\ wElapsed = WatchdogInterval)
       /\ log.atWatchdog
       /\ pc \in {"run_watchdog", "load"}
       /\ pc = "load" =>
            (log.outcome = "reloaded" /\ log.wdBy = "poll" /\ log.wdAt = WatchdogInterval)

C38_Witness ==
  /\ pc = "load"
  /\ runs = MaxRuns
  /\ log.entry = "reload"
  /\ log.outcome = "reloaded"
  /\ log.wdBy = "poll"
  /\ log.wdAt = WatchdogInterval
  /\ log.wdMatched
  /\ expiresIn # <<>>
  /\ expiresIn[1] <= WatchdogOffset

\* ------------------------------------------------------------------ claims on the store

====
